---------------------------- MODULE Spec2Model ----------------------------
(***************************************************************************)
(* GPS copier of TeaObvious/utils (copy_gps_by_datetime_and_lens.py):      *)
(* creation-key composition, the five RAW indices, the matching cascade    *)
(* with its reference cross-check and identity filters, the memoised       *)
(* reference lookup and the run loop that grafts GPS tags.                 *)
(*                                                                         *)
(* Text is modelled as a sequence of one-character strings, so that        *)
(* lower(), strip(), stem, the '.' test and the offset-suffix test are     *)
(* computed character by character as the Python code computes them.  A    *)
(* tag value is what json.loads gives for one exiftool tag: absent (None), *)
(* a string or a number.                                                   *)
(***************************************************************************)
EXTENDS Integers, Sequences, FiniteSets, TLC

VARIABLES
    pc,          \* position of the process
    config,      \* the arguments GPSCopier.__init__ keeps
    rawFiles,    \* the files below raw_root, each with the tags it carries
    jpegFiles,   \* the files below jpeg_root, each with the tags it carries
    refFiles,    \* files below the reference root, in traversal order
    rawList,     \* raw_metadata_list of run()
    jpegList,    \* jpeg_metadata_list of run()
    index,       \* by_creation, by_shutter, by_image_number, by_name, by_basename
    refCache,    \* RefLookup.cache
    refLog,      \* instrumentation: searches, reads and calls of RefLookup.find
    pos,         \* index of the JPEG the loop of run() is at
    result,      \* what match_jpeg_to_raw returned for that JPEG, with its stages
    counters,    \* the tallies of run()
    grafts,      \* the copy_gps invocations so far
    metadata,    \* the record handed to compose_creation (composition alone)
    creation,    \* what compose_creation returned for it
    rawCache,    \* the file at raw_cache_path: <<>> when there is none, else <<list>>
    unreadable,  \* paths on which exiftool fails (CalledProcessError)
    merge        \* merge_cameras.main: its arguments, its locals, the output folder

vars == <<pc, config, rawFiles, jpegFiles, refFiles, rawList, jpegList, index,
          refCache, refLog, pos, result, counters, grafts, metadata, creation,
          rawCache, unreadable, merge>>

-----------------------------------------------------------------------------
(* Tag values *)

None == [t |-> "none", s |-> <<>>, n |-> 0]

Str(chars) == [t |-> "str", s |-> chars, n |-> 0]

Num(k) == [t |-> "num", s |-> <<>>, n |-> k]

\* Python truthiness of a tag value: None, "" and 0 are falsy.
Truthy(v) == \/ v.t = "str" /\ v.s # <<>>
             \/ v.t = "num" /\ v.n # 0

\* Python's `a or b`.
Or(a, b) == IF Truthy(a) THEN a ELSE b

Digit(d) == CASE d = 0 -> "0" [] d = 1 -> "1" [] d = 2 -> "2" [] d = 3 -> "3"
              [] d = 4 -> "4" [] d = 5 -> "5" [] d = 6 -> "6" [] d = 7 -> "7"
              [] d = 8 -> "8" [] d = 9 -> "9"

RECURSIVE NatText(_)
NatText(k) == IF k < 10 THEN <<Digit(k)>> ELSE NatText(k \div 10) \o <<Digit(k % 10)>>

\* str(value) as an f-string or str() renders a tag value.
Text(v) == CASE v.t = "str" -> v.s
             [] v.t = "num" -> IF v.n < 0 THEN <<"-">> \o NatText(0 - v.n) ELSE NatText(v.n)
             [] OTHER -> <<"N", "o", "n", "e">>

-----------------------------------------------------------------------------
(* A metadata record: every tag the three tag lists ask for, and the two   *)
(* other serial-number tags a file may carry; a tag the tool did not       *)
(* return is None, as metadata.get(tag) gives.                             *)

NoTags ==
    [SourceFile |-> <<>>,
     CreateDate |-> None, SubSecTime |-> None, SubSecTimeOriginal |-> None,
     SubSecTimeDigitized |-> None, OffsetTime |-> None, OffsetTimeOriginal |-> None,
     OffsetTimeDigitized |-> None, DateCreated |-> None, TimeCreated |-> None,
     ShutterCount |-> None, MechanicalShutterCount |-> None, ImageNumber |-> None,
     FileNumber |-> None, LensID |-> None, LensModel |-> None, SerialNumber |-> None,
     PreservedFileName |-> None, CameraSerialNumber |-> None,
     BodySerialNumber |-> None]

RAW_TAGS ==
    {"CreateDate", "SubSecTime", "SubSecTimeOriginal", "SubSecTimeDigitized",
     "OffsetTime", "OffsetTimeOriginal", "OffsetTimeDigitized", "DateCreated",
     "TimeCreated", "ShutterCount", "MechanicalShutterCount", "ImageNumber",
     "FileNumber", "LensID", "LensModel", "SerialNumber"}

JPG_TAGS ==
    {"CreateDate", "SubSecTime", "SubSecTimeOriginal", "SubSecTimeDigitized",
     "OffsetTime", "OffsetTimeOriginal", "OffsetTimeDigitized", "DateCreated",
     "TimeCreated", "ImageNumber", "PreservedFileName", "LensID", "LensModel",
     "SerialNumber"}

\* The tags find asks read_single for.
REF_TAGS ==
    {"CreateDate", "SubSecTime", "SubSecTimeOriginal", "SubSecTimeDigitized",
     "OffsetTime", "OffsetTimeOriginal", "OffsetTimeDigitized", "ImageNumber",
     "PreservedFileName", "LensID", "LensModel", "SerialNumber"}

Tag(file, tags, name) == IF name \in tags THEN file[name] ELSE None

\* The record exiftool prints for a file when asked for tags: SourceFile
\* and, of the tags asked for, those the file carries.
Requested(file, tags) ==
    [SourceFile |-> file.SourceFile,
     CreateDate |-> Tag(file, tags, "CreateDate"),
     SubSecTime |-> Tag(file, tags, "SubSecTime"),
     SubSecTimeOriginal |-> Tag(file, tags, "SubSecTimeOriginal"),
     SubSecTimeDigitized |-> Tag(file, tags, "SubSecTimeDigitized"),
     OffsetTime |-> Tag(file, tags, "OffsetTime"),
     OffsetTimeOriginal |-> Tag(file, tags, "OffsetTimeOriginal"),
     OffsetTimeDigitized |-> Tag(file, tags, "OffsetTimeDigitized"),
     DateCreated |-> Tag(file, tags, "DateCreated"),
     TimeCreated |-> Tag(file, tags, "TimeCreated"),
     ShutterCount |-> Tag(file, tags, "ShutterCount"),
     MechanicalShutterCount |-> Tag(file, tags, "MechanicalShutterCount"),
     ImageNumber |-> Tag(file, tags, "ImageNumber"),
     FileNumber |-> Tag(file, tags, "FileNumber"),
     LensID |-> Tag(file, tags, "LensID"),
     LensModel |-> Tag(file, tags, "LensModel"),
     SerialNumber |-> Tag(file, tags, "SerialNumber"),
     PreservedFileName |-> Tag(file, tags, "PreservedFileName"),
     CameraSerialNumber |-> Tag(file, tags, "CameraSerialNumber"),
     BodySerialNumber |-> Tag(file, tags, "BodySerialNumber")]

\* scan_tree: one record for each file below the root.
RECURSIVE scan_tree(_, _)
scan_tree(files, tags) ==
    IF files = <<>> THEN <<>>
    ELSE <<Requested(Head(files), tags)>> \o scan_tree(Tail(files), tags)

\* Some file below the root makes the tool exit with an error.
ToolFails(files, failing) == \E k \in 1..Len(files) : files[k].SourceFile \in failing

-----------------------------------------------------------------------------
(* ExifClient.compose_creation *)

_has_offset(s) == /\ Len(s) >= 6
                  /\ s[Len(s) - 2] = ":"
                  /\ s[Len(s) - 5] \in {"+", "-"}

_has_subsec(s) == \E k \in 1..Len(s) : s[k] = "."

\* offset_any: the first truthy of the three offset tags.
OffsetAny(md) == Or(Or(md.OffsetTimeDigitized, md.OffsetTimeOriginal), md.OffsetTime)

\* if not _has_subsec(s) and sub is not None and sub != "": s = f"{s}.{sub}"
AppendSubsec(s, sub) ==
    IF ~_has_subsec(s) /\ sub # None /\ sub # Str(<<>>)
    THEN s \o <<".">> \o Text(sub) ELSE s

\* if not _has_offset(s) and offset_any: s = f"{s}{offset_any}"
AppendOffset(s, offset_any) ==
    IF ~_has_offset(s) /\ Truthy(offset_any) THEN s \o Text(offset_any) ELSE s

\* The branch for a record with CreateDate: sub-second precedence digitized,
\* original, generic.
ComposeFromCreateDate(md) ==
    Str(AppendOffset(
            AppendSubsec(Text(md.CreateDate),
                         Or(Or(md.SubSecTimeDigitized, md.SubSecTimeOriginal), md.SubSecTime)),
            OffsetAny(md)))

\* The branch for a record with DateCreated and TimeCreated: sub-second
\* precedence generic, digitized, original.
ComposeFromDateTimeCreated(md) ==
    Str(AppendOffset(
            AppendSubsec(Text(md.DateCreated) \o <<" ">> \o Text(md.TimeCreated),
                         Or(Or(md.SubSecTime, md.SubSecTimeDigitized), md.SubSecTimeOriginal)),
            OffsetAny(md)))

compose_creation(md) ==
    IF Truthy(md.CreateDate) THEN ComposeFromCreateDate(md)
    ELSE IF Truthy(md.DateCreated) /\ Truthy(md.TimeCreated)
         THEN ComposeFromDateTimeCreated(md)
         ELSE None

-----------------------------------------------------------------------------
(* Python string and path helpers *)

UpperCase == <<"A", "B", "C", "D", "E", "F", "G", "H", "I", "J", "K", "L", "M",
               "N", "O", "P", "Q", "R", "S", "T", "U", "V", "W", "X", "Y", "Z">>

LowerCase == <<"a", "b", "c", "d", "e", "f", "g", "h", "i", "j", "k", "l", "m",
               "n", "o", "p", "q", "r", "s", "t", "u", "v", "w", "x", "y", "z">>

LowerChar(c) == IF \E k \in 1..26 : UpperCase[k] = c
                THEN LowerCase[CHOOSE k \in 1..26 : UpperCase[k] = c]
                ELSE c

\* str.lower()
RECURSIVE lower(_)
lower(s) == IF s = <<>> THEN <<>> ELSE <<LowerChar(Head(s))>> \o lower(Tail(s))

IsSpace(c) == c \in {" ", "\t", "\n"}

\* str.strip()
strip(s) ==
    IF \A k \in 1..Len(s) : IsSpace(s[k]) THEN <<>>
    ELSE LET first == CHOOSE k \in 1..Len(s) :
                        ~IsSpace(s[k]) /\ \A j \in 1..(k - 1) : IsSpace(s[j])
             last  == CHOOSE k \in 1..Len(s) :
                        ~IsSpace(s[k]) /\ \A j \in (k + 1)..Len(s) : IsSpace(s[j])
         IN  SubSeq(s, first, last)

\* Position of the last occurrence of character c in s, 0 when there is none.
LastIndexOf(s, c) ==
    IF \E k \in 1..Len(s) : s[k] = c
    THEN CHOOSE k \in 1..Len(s) : s[k] = c /\ \A j \in (k + 1)..Len(s) : s[j] # c
    ELSE 0

\* Path(p).name: the final component.
PathName(p) == SubSeq(p, LastIndexOf(p, "/") + 1, Len(p))

\* Path(p).suffix: from the last '.', unless it is the first or last character.
PathSuffix(p) ==
    LET name == PathName(p)
        k    == LastIndexOf(name, ".")
    IN  IF 1 < k /\ k < Len(name) THEN SubSeq(name, k, Len(name)) ELSE <<>>

\* Path(p).stem: the name without its suffix.
PathStem(p) ==
    LET name == PathName(p)
    IN  SubSeq(name, 1, Len(name) - Len(PathSuffix(p)))

IsDigit(c) == c \in {"0", "1", "2", "3", "4", "5", "6", "7", "8", "9"}

DigitValue(c) == CHOOSE d \in 0..9 : Digit(d) = c

RECURSIVE DigitsValue(_)
DigitsValue(s) ==
    IF s = <<>> THEN 0
    ELSE 10 * DigitsValue(SubSeq(s, 1, Len(s) - 1)) + DigitValue(s[Len(s)])

\* int(text): an optional sign and decimal digits; anything else raises
\* ValueError, given here as None (the caller's except clause).
ParseInt(s) ==
    LET signed == s # <<>> /\ s[1] \in {"+", "-"}
        digits == IF signed THEN Tail(s) ELSE s
    IN  IF digits # <<>> /\ \A k \in 1..Len(digits) : IsDigit(digits[k])
        THEN Num(IF signed /\ s[1] = "-" THEN 0 - DigitsValue(digits) ELSE DigitsValue(digits))
        ELSE None

\* ExifClient.to_int
to_int(value) == IF value = None THEN None ELSE ParseInt(strip(Text(value)))

-----------------------------------------------------------------------------
(* GPSCopier.build_raw_indices *)

\* dict.get(key, []) on a bucket mapping.
Bucket(map, key) == IF key \in DOMAIN map THEN map[key] ELSE <<>>

\* defaultdict(list)[key].append(entry)
Put(map, key, entry) ==
    IF key \in DOMAIN map THEN [map EXCEPT ![key] = Append(@, entry)]
    ELSE [k \in DOMAIN map \cup {key} |-> IF k = key THEN <<entry>> ELSE map[k]]

EmptyMap == [k \in {} |-> <<>>]

EmptyIndex == [by_creation |-> EmptyMap, by_shutter |-> EmptyMap,
               by_image_number |-> EmptyMap, by_name |-> EmptyMap,
               by_basename |-> EmptyMap]

\* The frame counter of a RAW record: ShutterCount, else
\* MechanicalShutterCount, else ImageNumber.
RawShutterCount(md) ==
    LET shutter_count == to_int(md.ShutterCount)
        mechanical    == to_int(md.MechanicalShutterCount)
        image_number  == to_int(md.ImageNumber)
        sc1 == IF shutter_count = None THEN mechanical ELSE shutter_count
    IN  IF sc1 = None /\ image_number # None THEN image_number ELSE sc1

RawEntry(md) ==
    [path |-> md.SourceFile,
     CreateKey |-> compose_creation(md),
     ShutterCount |-> RawShutterCount(md),
     MechanicalShutterCount |-> to_int(md.MechanicalShutterCount),
     ImageNumber |-> to_int(md.ImageNumber),
     FileNumber |-> to_int(md.FileNumber),
     SerialNumber |-> md.SerialNumber,
     LensID |-> Or(md.LensID, md.LensModel)]

\* IndexEntry testing the frame counter for truth, not for None.
IndexEntryTruthy(idx, entry) ==
    [by_creation |-> IF Truthy(entry.CreateKey)
                     THEN Put(idx.by_creation, entry.CreateKey.s, entry)
                     ELSE idx.by_creation,
     by_shutter |-> IF Truthy(entry.ShutterCount)
                    THEN Put(idx.by_shutter, entry.ShutterCount.n, entry)
                    ELSE idx.by_shutter,
     by_image_number |-> IF entry.ImageNumber # None
                         THEN Put(idx.by_image_number, entry.ImageNumber.n, entry)
                         ELSE idx.by_image_number,
     by_name |-> Put(idx.by_name, lower(PathName(entry.path)), entry),
     by_basename |-> Put(idx.by_basename, lower(PathStem(entry.path)), entry)]

\* One pass of the loop of build_raw_indices: the entry goes into every
\* bucket it applies to.
IndexEntry(idx, entry) ==
    [by_creation |-> IF Truthy(entry.CreateKey)
                     THEN Put(idx.by_creation, entry.CreateKey.s, entry)
                     ELSE idx.by_creation,
     by_shutter |-> IF entry.ShutterCount # None
                    THEN Put(idx.by_shutter, entry.ShutterCount.n, entry)
                    ELSE idx.by_shutter,
     by_image_number |-> IF entry.ImageNumber # None
                         THEN Put(idx.by_image_number, entry.ImageNumber.n, entry)
                         ELSE idx.by_image_number,
     by_name |-> Put(idx.by_name, lower(PathName(entry.path)), entry),
     by_basename |-> Put(idx.by_basename, lower(PathStem(entry.path)), entry)]

RECURSIVE IndexFrom(_, _, _)
IndexFrom(list, k, idx) ==
    IF k > Len(list) THEN idx
    ELSE IndexFrom(list, k + 1, IndexEntry(idx, RawEntry(list[k])))

build_raw_indices(raw_metadata_list) == IndexFrom(raw_metadata_list, 1, EmptyIndex)

-----------------------------------------------------------------------------
(* RefLookup.find.  A file below the reference root is [path, data]: its   *)
(* path relative to the root and what read_single gives for it, <<>> for   *)
(* None (the tool failed or printed nothing) or <<record>>.                *)

\* self.ref_root.rglob(filename): the files of that exact name, in traversal
\* order.
RglobName(files, filename) ==
    SelectSeq(files, LAMBDA f : PathName(f.path) = filename)

\* The loop over rglob("*"): the first JPEG-extension file whose lower-cased
\* name is key, as a list of at most one.
RglobAnyCase(files, key) ==
    LET hits == SelectSeq(files, LAMBDA f :
                    /\ lower(PathSuffix(f.path)) \in {<<".", "j", "p", "g">>,
                                                      <<".", "j", "p", "e", "g">>}
                    /\ lower(PathName(f.path)) = key)
    IN  IF hits = <<>> THEN <<>> ELSE <<hits[1]>>

\* candidate_paths of find: the direct file alone when it exists, else the
\* recursive exact-name hits, else the first case-insensitive hit.
CandidatePaths(files, filename) ==
    LET direct == SelectSeq(files, LAMBDA f : f.path = filename)
        exact  == RglobName(files, filename)
    IN  IF direct # <<>> THEN direct
        ELSE IF exact # <<>> THEN exact
        ELSE RglobAnyCase(files, lower(filename))

\* The read loop of find: read_single on each candidate until one gives a
\* non-empty record.  [ret, reads]: the last value read and the paths read.
RECURSIVE ReadCandidates(_, _, _)
ReadCandidates(candidates, k, reads) ==
    IF k > Len(candidates) THEN [ret |-> <<>>, reads |-> reads]
    ELSE IF candidates[k].data # <<>>
         THEN [ret |-> <<Requested(candidates[k].data[1], REF_TAGS)>>,
               reads |-> Append(reads, candidates[k].path)]
         ELSE ReadCandidates(candidates, k + 1, Append(reads, candidates[k].path))

\* FindByKey returning from the cache only a value that is a record.
FindByKeyRecordsOnly(files, cache, filename, key) ==
    IF key \in DOMAIN cache /\ cache[key] # <<>>
    THEN [ret |-> cache[key], hit |-> TRUE, reads |-> <<>>]
    ELSE [hit |-> FALSE] @@ ReadCandidates(CandidatePaths(files, filename), 1, <<>>)

\* One call of find with a reference root configured: [ret, hit, reads],
\* hit when the value came from the cache.
FindByKey(files, cache, filename, key) ==
    IF key \in DOMAIN cache
    THEN [ret |-> cache[key], hit |-> TRUE, reads |-> <<>>]
    ELSE [hit |-> FALSE] @@ ReadCandidates(CandidatePaths(files, filename), 1, <<>>)

find(files, cache, filename) == FindByKey(files, cache, filename, lower(filename))

\* self.cache[key] = ref_metadata
CacheAfterFind(cache, filename, found) ==
    LET key == lower(filename)
    IN  IF found.hit THEN cache
        ELSE [k \in DOMAIN cache \cup {key} |-> IF k = key THEN found.ret ELSE cache[k]]

RECURSIVE ReadEvents(_, _)
ReadEvents(key, reads) ==
    IF reads = <<>> THEN <<>>
    ELSE <<[ev |-> "read", key |-> key, path |-> Head(reads), ret |-> <<>>]>>
         \o ReadEvents(key, Tail(reads))

\* What the instrumented collaborators record for one call of find: the
\* filesystem search, each read_single, and the call with its return value.
FindEvents(filename, found) ==
    LET key == lower(filename)
    IN  (IF found.hit THEN <<>>
         ELSE <<[ev |-> "search", key |-> key, path |-> <<>>, ret |-> <<>>]>>)
        \o ReadEvents(key, found.reads)
        \o <<[ev |-> "find", key |-> key, path |-> filename, ret |-> found.ret]>>

-----------------------------------------------------------------------------
(* The matcher *)

\* list({e["path"]: e for e in entries}.values()): one entry per path, at the
\* place of the path's first entry, holding the path's last entry.
RECURSIVE DedupFrom(_, _, _)
DedupFrom(entries, k, acc) ==
    IF k > Len(entries) THEN acc
    ELSE LET e == entries[k]
         IN  IF \E j \in 1..Len(acc) : acc[j].path = e.path
             THEN LET j == CHOOSE j \in 1..Len(acc) : acc[j].path = e.path
                  IN  DedupFrom(entries, k + 1,
                          SubSeq(acc, 1, j - 1) \o <<e>> \o SubSeq(acc, j + 1, Len(acc)))
             ELSE DedupFrom(entries, k + 1, Append(acc, e))

\* DedupByPath without the mapping from path to entry.
KeepDuplicates(entries) == entries

DedupByPath(entries) == DedupFrom(entries, 1, <<>>)

\* `new or old` on lists.
Prefer(new, old) == IF new # <<>> THEN new ELSE old

\* NarrowOrKeep with the comparison of the keys negated.
NarrowNegated(candidates, creation_key) ==
    IF Len(candidates) > 1 /\ Truthy(creation_key)
    THEN Prefer(SelectSeq(candidates, LAMBDA e : e.CreateKey # creation_key), candidates)
    ELSE candidates

\* NarrowOrKeep returning the narrowed list also when it is empty.
NarrowOnly(candidates, creation_key) ==
    IF Len(candidates) > 1 /\ Truthy(creation_key)
    THEN SelectSeq(candidates, LAMBDA e : e.CreateKey = creation_key)
    ELSE candidates

\* narrowed or candidates, when more than one candidate and a creation key.
NarrowOrKeep(candidates, creation_key) ==
    IF Len(candidates) > 1 /\ Truthy(creation_key)
    THEN Prefer(SelectSeq(candidates, LAMBDA e : e.CreateKey = creation_key), candidates)
    ELSE candidates

\* _apply_imagenumber_fallback reading the by_image_number mapping.
ImagenumberFallbackByImageNumber(idx, image_number, creation_key) ==
    IF image_number = None THEN <<>>
    ELSE NarrowOrKeep(DedupByPath(Bucket(idx.by_image_number, image_number.n)),
                      creation_key)

_apply_imagenumber_fallback(idx, image_number, creation_key) ==
    IF image_number = None THEN <<>>
    ELSE NarrowOrKeep(DedupByPath(Bucket(idx.by_shutter, image_number.n)), creation_key)

\* _apply_preserved_name_fallback without the lower-casing of the name.
PreservedNameCaseSensitive(idx, preserved_name, creation_key) ==
    IF ~Truthy(preserved_name) THEN <<>>
    ELSE NarrowOrKeep(
             DedupByPath(Bucket(idx.by_name, preserved_name.s)
                         \o Bucket(idx.by_basename, PathStem(preserved_name.s))),
             creation_key)

\* preserved_name is a str or None in every record considered here.
_apply_preserved_name_fallback(idx, preserved_name, creation_key) ==
    IF ~Truthy(preserved_name) THEN <<>>
    ELSE NarrowOrKeep(
             DedupByPath(Bucket(idx.by_name, lower(preserved_name.s))
                         \o Bucket(idx.by_basename, lower(PathStem(preserved_name.s)))),
             creation_key)

\* GPSCopier._norm
_norm(v) == IF v.t = "str" THEN Str(strip(lower(v.s))) ELSE None

\* ref_meta.get(tag) if ref_meta else None; ref is <<>> or <<record>>.
RefSerial(ref) == IF ref # <<>> THEN ref[1].SerialNumber ELSE None

RefLens(ref) == IF ref # <<>> THEN Or(ref[1].LensID, ref[1].LensModel) ELSE None

\* KeepEqual comparing also when no wanted value is known.
KeepEqualUnknown(required, candidates, field, want) ==
    IF required
    THEN SelectSeq(candidates, LAMBDA c : _norm(c[field]) = _norm(want))
    ELSE candidates

\* candidates = [c for c in candidates if _norm(c.get(field)) == _norm(want)]
\* when the requirement is on and a wanted value is known.
KeepEqual(required, candidates, field, want) ==
    IF required /\ Truthy(want)
    THEN SelectSeq(candidates, LAMBDA c : _norm(c[field]) = _norm(want))
    ELSE candidates

\* The require_serial half of _apply_lens_serial_requirements.
SerialFilter(cfg, candidates, jpeg_meta, ref) ==
    KeepEqual(cfg.require_serial, candidates, "SerialNumber",
              Or(jpeg_meta.SerialNumber, RefSerial(ref)))

\* The require_lens half of _apply_lens_serial_requirements.
LensFilter(cfg, candidates, jpeg_meta, ref) ==
    KeepEqual(cfg.require_lens, candidates, "LensID",
              Or(Or(jpeg_meta.LensID, jpeg_meta.LensModel), RefLens(ref)))

_apply_lens_serial_requirements(cfg, candidates, jpeg_meta, ref) ==
    IF candidates = <<>> THEN candidates
    ELSE LensFilter(cfg, SerialFilter(cfg, candidates, jpeg_meta, ref), jpeg_meta, ref)

Undecided(candidates) == candidates = <<>> \/ Len(candidates) > 1

\* Stage 1: the creation-key bucket, one entry per path.
Primary(idx, creation_key) ==
    IF Truthy(creation_key) THEN DedupByPath(Bucket(idx.by_creation, creation_key.s))
    ELSE <<>>

\* SelfCounter reading the FileNumber tag.
SelfCounterFromFileNumber(idx, jpeg_metadata, creation_key, candidate_list) ==
    Prefer(_apply_imagenumber_fallback(idx, to_int(jpeg_metadata.FileNumber), creation_key),
           candidate_list)

\* c_sc = fallback(to_int(ImageNumber)); if c_sc: candidate_list = c_sc
SelfCounter(idx, jpeg_metadata, creation_key, candidate_list) ==
    Prefer(_apply_imagenumber_fallback(idx, to_int(jpeg_metadata.ImageNumber), creation_key),
           candidate_list)

\* The preserved-name fallback of the JPEG itself, while still undecided.
SelfName(idx, jpeg_metadata, creation_key, candidate_list) ==
    IF Undecided(candidate_list) /\ Truthy(jpeg_metadata.PreservedFileName)
    THEN Prefer(_apply_preserved_name_fallback(idx, jpeg_metadata.PreservedFileName,
                                               creation_key),
                candidate_list)
    ELSE candidate_list

\* The local c_sc of the self fallbacks, <<>> when line 371 is not reached.
SelfCounterResult(idx, jpeg_metadata, creation_key, primary) ==
    IF Undecided(primary)
    THEN _apply_imagenumber_fallback(idx, to_int(jpeg_metadata.ImageNumber), creation_key)
    ELSE <<>>

\* The local c_name of the self fallbacks, <<>> when line 375 is not reached.
SelfNameResult(idx, jpeg_metadata, creation_key, primary) ==
    IF /\ Undecided(primary)
       /\ Undecided(SelfCounter(idx, jpeg_metadata, creation_key, primary))
       /\ Truthy(jpeg_metadata.PreservedFileName)
    THEN _apply_preserved_name_fallback(idx, jpeg_metadata.PreservedFileName,
                                        creation_key)
    ELSE <<>>

\* SelfFallbacks without the test that the primary stage left it undecided.
SelfFallbacksAlways(idx, jpeg_metadata, creation_key, primary) ==
    [creation_key |-> creation_key,
     primary |-> primary,
     c_sc |-> SelfCounterResult(idx, jpeg_metadata, creation_key, primary),
     c_name |-> SelfNameResult(idx, jpeg_metadata, creation_key, primary),
     candidates |-> SelfName(idx, jpeg_metadata, creation_key,
                             SelfCounter(idx, jpeg_metadata, creation_key, primary))]

SelfFallbacks(idx, jpeg_metadata, creation_key, primary) ==
    [creation_key |-> creation_key,
     primary |-> primary,
     c_sc |-> SelfCounterResult(idx, jpeg_metadata, creation_key, primary),
     c_name |-> SelfNameResult(idx, jpeg_metadata, creation_key, primary),
     candidates |-> IF Undecided(primary)
                    THEN SelfName(idx, jpeg_metadata, creation_key,
                                  SelfCounter(idx, jpeg_metadata, creation_key, primary))
                    ELSE primary]

SelfWithKey(idx, jpeg_metadata, creation_key) ==
    SelfFallbacks(idx, jpeg_metadata, creation_key, Primary(idx, creation_key))

\* Stage 1 and the fallbacks from the JPEG itself.
SelfStages(idx, jpeg_metadata) ==
    SelfWithKey(idx, jpeg_metadata, compose_creation(jpeg_metadata))

\* if not creation_key: ref_key = compose_creation(ref); if ref_key: adopt it
WorkingKey(creation_key, ref_key) ==
    IF ~Truthy(creation_key) /\ Truthy(ref_key) THEN ref_key ELSE creation_key

\* RefNameResult with the reference marked used by any non-empty result.
RefNameResultAnyHit(creation_key, c_sc, c_name, candidate_list) ==
    [creation_key |-> creation_key, c_sc |-> c_sc, c_name |-> c_name,
     candidates |-> Prefer(c_name, candidate_list),
     used_ref |-> c_sc # <<>> \/ c_name # <<>>]

\* RefNameResult adding the names found to the candidates it was given.
RefNameResultUnion(creation_key, c_sc, c_name, candidate_list) ==
    [creation_key |-> creation_key, c_sc |-> c_sc, c_name |-> c_name,
     candidates |-> DedupByPath(candidate_list \o c_name),
     used_ref |-> Len(c_sc) = 1 \/ Len(c_name) = 1]

\* The preserved-name fallback with the reference record's name.
RefNameResult(creation_key, c_sc, c_name, candidate_list) ==
    [creation_key |-> creation_key, c_sc |-> c_sc, c_name |-> c_name,
     candidates |-> Prefer(c_name, candidate_list),
     used_ref |-> Len(c_sc) = 1 \/ Len(c_name) = 1]

RefName(idx, creation_key, ref_metadata, c_sc, candidate_list) ==
    IF Undecided(candidate_list)
    THEN RefNameResult(creation_key, c_sc,
             _apply_preserved_name_fallback(idx, ref_metadata.PreservedFileName,
                                            creation_key),
             candidate_list)
    ELSE [creation_key |-> creation_key, c_sc |-> c_sc, c_name |-> <<>>,
          candidates |-> candidate_list, used_ref |-> Len(c_sc) = 1]

\* The frame-counter fallback with the reference record's ImageNumber.
RefCounter(idx, creation_key, ref_metadata, c_sc, candidate_list) ==
    RefName(idx, creation_key, ref_metadata, c_sc, Prefer(c_sc, candidate_list))

RefWithKey(idx, candidate_list, creation_key, ref_metadata) ==
    RefCounter(idx, creation_key, ref_metadata,
               _apply_imagenumber_fallback(idx, to_int(ref_metadata.ImageNumber),
                                           creation_key),
               candidate_list)

\* The reference stage once find has returned a record.
ReferenceStages(idx, candidate_list, creation_key, ref_metadata) ==
    RefWithKey(idx, candidate_list,
               WorkingKey(creation_key, compose_creation(ref_metadata)), ref_metadata)

\* Outcome with a first-wins tie-break for several candidates.
OutcomeFirstWins(candidate_list, used_ref) ==
    IF candidate_list = <<>>
    THEN [best_raw |-> <<>>, used_ref |-> used_ref, was_ambiguous |-> FALSE]
    ELSE [best_raw |-> <<candidate_list[1]>>, used_ref |-> used_ref,
          was_ambiguous |-> FALSE]

\* The three return statements of match_jpeg_to_raw.
Outcome(candidate_list, used_ref) ==
    IF candidate_list = <<>>
    THEN [best_raw |-> <<>>, used_ref |-> used_ref, was_ambiguous |-> FALSE]
    ELSE IF Len(candidate_list) > 1
         THEN [best_raw |-> <<>>, used_ref |-> used_ref, was_ambiguous |-> TRUE]
         ELSE [best_raw |-> <<candidate_list[1]>>, used_ref |-> used_ref,
               was_ambiguous |-> FALSE]

\* if candidate_list and (require_serial or require_lens): filter
Filtered(cfg, candidate_list, jpeg_metadata, ref_metadata) ==
    IF candidate_list # <<>> /\ (cfg.require_serial \/ cfg.require_lens)
    THEN _apply_lens_serial_requirements(cfg, candidate_list, jpeg_metadata, ref_metadata)
    ELSE candidate_list

\* What match_jpeg_to_raw returns (best_raw as <<>> or <<entry>>, used_ref,
\* was_ambiguous), with the candidate list after each stage.
MatchRecord(cfg, jpeg_metadata, self, consult, ref_metadata, ref, out) ==
    [best_raw |-> out.best_raw,
     used_ref |-> out.used_ref,
     was_ambiguous |-> out.was_ambiguous,
     jpeg_key |-> self.creation_key,
     primary |-> self.primary,
     self_c_sc |-> self.c_sc,
     self_c_name |-> self.c_name,
     self_candidates |-> self.candidates,
     consulted |-> consult,
     ref_metadata |-> ref_metadata,
     ref_key |-> ref.creation_key,
     ref_c_sc |-> ref.c_sc,
     ref_c_name |-> ref.c_name,
     unfiltered |-> ref.candidates,
     after_serial |-> SerialFilter(cfg, ref.candidates, jpeg_metadata, ref_metadata)]

MatchFiltered(cfg, jpeg_metadata, self, consult, ref_metadata, ref, filtered) ==
    [candidates |-> filtered]
    @@ MatchRecord(cfg, jpeg_metadata, self, consult, ref_metadata, ref,
                   Outcome(filtered, ref.used_ref))

MatchWithRef(cfg, jpeg_metadata, self, consult, ref_metadata, ref) ==
    MatchFiltered(cfg, jpeg_metadata, self, consult, ref_metadata, ref,
                  Filtered(cfg, ref.candidates, jpeg_metadata, ref_metadata))

MatchWithRecord(idx, cfg, jpeg_metadata, self, consult, ref_metadata) ==
    MatchWithRef(cfg, jpeg_metadata, self, consult, ref_metadata,
        IF ref_metadata # <<>>
        THEN ReferenceStages(idx, self.candidates, self.creation_key, ref_metadata[1])
        ELSE [creation_key |-> self.creation_key, c_sc |-> <<>>, c_name |-> <<>>,
              candidates |-> self.candidates, used_ref |-> FALSE])

\* ref_metadata = self.ref_lookup.find(jpeg_path.name), when it is called.
MatchConsult(idx, cfg, jpeg_metadata, found, self, consult) ==
    MatchWithRecord(idx, cfg, jpeg_metadata, self, consult,
                    IF consult THEN found.ret ELSE <<>>)

MatchFromSelf(idx, cfg, jpeg_metadata, found, self) ==
    MatchConsult(idx, cfg, jpeg_metadata, found, self,
                 Undecided(self.candidates) /\ cfg.ref_root)

\* match_jpeg_to_raw, given what find returns when it is called (found).
match_jpeg_to_raw(idx, cfg, jpeg_metadata, found) ==
    MatchFromSelf(idx, cfg, jpeg_metadata, found, SelfStages(idx, jpeg_metadata))

-----------------------------------------------------------------------------
(* GPSCopier.run *)

NoResult ==
    [best_raw |-> <<>>, used_ref |-> FALSE, was_ambiguous |-> FALSE, jpeg_key |-> None,
     primary |-> <<>>, self_c_sc |-> <<>>, self_c_name |-> <<>>,
     self_candidates |-> <<>>, consulted |-> FALSE,
     ref_metadata |-> <<>>, ref_key |-> None, ref_c_sc |-> <<>>, ref_c_name |-> <<>>,
     unfiltered |-> <<>>, after_serial |-> <<>>, candidates |-> <<>>]

\* merge_cameras is not running.
NoMerge ==
    [copy |-> FALSE, no_parallel |-> FALSE, dry_run |-> FALSE, all_files |-> <<>>,
     metadata_list |-> <<>>, k |-> 1, grouped |-> EmptyMap, skipped |-> 0,
     keys |-> <<>>, base_name |-> <<>>, items |-> <<>>, counter |-> EmptyMap,
     collisions |-> 0, transfers |-> <<>>, out |-> EmptyMap]

NoCounters == [missing_creation_key |-> 0, matched |-> 0, copied |-> 0,
               ambiguous |-> 0, ref_fallback |-> 0]

\* load_raw_metadata: the list stored in the cache file when there is one
\* and no reindex is asked for, else the scan of the RAW root, written to
\* the cache file.
LoadRawMetadata ==
    /\ pc = "load"
    /\ IF rawCache # <<>> /\ ~config.reindex
       THEN /\ rawList' = rawCache[1]
            /\ UNCHANGED rawCache
       ELSE /\ ~ToolFails(rawFiles, unreadable)
            /\ rawList' = scan_tree(rawFiles, RAW_TAGS)
            /\ rawCache' = <<scan_tree(rawFiles, RAW_TAGS)>>
    /\ pc' = "build"
    /\ UNCHANGED <<merge, unreadable, config, rawFiles, jpegFiles, refFiles, jpegList, index,
                   refCache, refLog, pos, result, counters, grafts, metadata, creation>>

\* compose_creation hands a truthy CreateDate to _has_subsec, whose
\* `"." in s` raises TypeError when the tool printed the value as a number.
ComposeRaises(md) == md.CreateDate.t = "num" /\ Truthy(md.CreateDate)

BuildRawIndices ==
    /\ pc = "build"
    /\ \A k \in 1..Len(rawList) : ~ComposeRaises(rawList[k])
    /\ index' = build_raw_indices(rawList)
    /\ pc' = "scan"
    /\ UNCHANGED <<merge, rawCache, unreadable, config, rawFiles, jpegFiles, refFiles, rawList, jpegList, refCache,
                   refLog, pos, result, counters, grafts, metadata, creation>>

\* scan_tree(jpeg_root) and the counters set to zero.
ScanJpegs ==
    /\ pc = "scan"
    /\ ~ToolFails(jpegFiles, unreadable)
    /\ jpegList' = scan_tree(jpegFiles, JPG_TAGS)
    /\ pos' = 1
    /\ counters' = NoCounters
    /\ pc' = "loop"
    /\ UNCHANGED <<merge, rawCache, unreadable, config, rawFiles, jpegFiles, refFiles, rawList, index, refCache,
                   refLog, result, grafts, metadata, creation>>

\* The state after match_jpeg_to_raw returned m, having called find (found)
\* when m.consulted.
Matched(jpeg_metadata, filename, found, m) ==
    /\ result' = m
    /\ refCache' = IF m.consulted THEN CacheAfterFind(refCache, filename, found)
                   ELSE refCache
    /\ refLog' = IF m.consulted THEN refLog \o FindEvents(filename, found) ELSE refLog
    /\ counters' = IF compose_creation(jpeg_metadata) = None
                   THEN [counters EXCEPT !.missing_creation_key = @ + 1]
                   ELSE counters

MatchFound(jpeg_metadata, filename, found) ==
    Matched(jpeg_metadata, filename, found,
            match_jpeg_to_raw(index, config, jpeg_metadata, found))

MatchNamed(jpeg_metadata, filename) ==
    MatchFound(jpeg_metadata, filename, find(refFiles, refCache, filename))

\* The head of one pass of the loop: the missing-key tally and
\* match_jpeg_to_raw, with the call of find it makes.
MatchJpeg ==
    /\ pc = "loop"
    /\ pos <= Len(jpegList)
    /\ MatchNamed(jpegList[pos], PathName(jpegList[pos].SourceFile))
    /\ pc' = "matched"
    /\ UNCHANGED <<merge, rawCache, unreadable, config, rawFiles, jpegFiles, refFiles, rawList, jpegList, index,
                   pos, grafts, metadata, creation>>

\* Ambiguous counting the JPEG as matched too.
AmbiguousCountsMatch ==
    /\ pc = "matched"
    /\ result.was_ambiguous
    /\ counters' = [counters EXCEPT !.ambiguous = @ + 1, !.matched = @ + 1]
    /\ pos' = pos + 1
    /\ pc' = "loop"
    /\ UNCHANGED <<merge, rawCache, unreadable, config, rawFiles, jpegFiles, refFiles, rawList,
                   jpegList, index, refCache, refLog, result, grafts, metadata, creation>>

\* if was_ambiguous: ambiguous += 1; continue
Ambiguous ==
    /\ pc = "matched"
    /\ result.was_ambiguous
    /\ counters' = [counters EXCEPT !.ambiguous = @ + 1]
    /\ pos' = pos + 1
    /\ pc' = "loop"
    /\ UNCHANGED <<merge, rawCache, unreadable, config, rawFiles, jpegFiles, refFiles, rawList, jpegList, index,
                   refCache, refLog, result, grafts, metadata, creation>>

\* if not best_raw: continue
Miss ==
    /\ pc = "matched"
    /\ ~result.was_ambiguous
    /\ result.best_raw = <<>>
    /\ pos' = pos + 1
    /\ pc' = "loop"
    /\ UNCHANGED <<merge, rawCache, unreadable, config, rawFiles, jpegFiles, refFiles, rawList, jpegList, index,
                   refCache, refLog, result, counters, grafts, metadata, creation>>

\* Graft with the arguments of copy_gps in the wrong order.
GraftSwapped(ok) ==
    /\ pc = "matched"
    /\ ~result.was_ambiguous
    /\ result.best_raw # <<>>
    /\ counters' = [counters EXCEPT
                       !.ref_fallback = IF result.used_ref THEN @ + 1 ELSE @,
                       !.matched = @ + 1,
                       !.copied = IF ok THEN @ + 1 ELSE @]
    /\ grafts' = Append(grafts, [source |-> jpegList[pos].SourceFile,
                                 target |-> result.best_raw[1].path,
                                 pos |-> pos, dry_run |-> config.dry_run, ok |-> ok])
    /\ pos' = pos + 1
    /\ pc' = "loop"
    /\ UNCHANGED <<merge, rawCache, unreadable, config, rawFiles, jpegFiles, refFiles, rawList, jpegList, index,
                   refCache, refLog, result, metadata, creation>>

\* The tail of a pass for a resolved match; ok is what copy_gps returns.
Graft(ok) ==
    /\ pc = "matched"
    /\ ~result.was_ambiguous
    /\ result.best_raw # <<>>
    /\ counters' = [counters EXCEPT
                       !.ref_fallback = IF result.used_ref THEN @ + 1 ELSE @,
                       !.matched = @ + 1,
                       !.copied = IF ok THEN @ + 1 ELSE @]
    /\ grafts' = Append(grafts, [source |-> result.best_raw[1].path,
                                 target |-> jpegList[pos].SourceFile,
                                 pos |-> pos, dry_run |-> config.dry_run, ok |-> ok])
    /\ pos' = pos + 1
    /\ pc' = "loop"
    /\ UNCHANGED <<merge, rawCache, unreadable, config, rawFiles, jpegFiles, refFiles, rawList, jpegList, index,
                   refCache, refLog, result, metadata, creation>>

\* copy_gps returns True: the dry run, or exiftool succeeded.
GraftOk == Graft(TRUE)

\* GraftFail leaving the loop after the failed copy.
GraftFailBreaks ==
    /\ ~config.dry_run
    /\ pc = "matched"
    /\ ~result.was_ambiguous
    /\ result.best_raw # <<>>
    /\ counters' = [counters EXCEPT
                       !.ref_fallback = IF result.used_ref THEN @ + 1 ELSE @,
                       !.matched = @ + 1]
    /\ grafts' = Append(grafts, [source |-> result.best_raw[1].path,
                                 target |-> jpegList[pos].SourceFile,
                                 pos |-> pos, dry_run |-> config.dry_run, ok |-> FALSE])
    /\ pc' = "done"
    /\ UNCHANGED <<merge, rawCache, unreadable, config, rawFiles, jpegFiles, refFiles, rawList,
                   jpegList, index, refCache, refLog, pos, result, metadata, creation>>

\* copy_gps returns False: exiftool failed (never in a dry run).
GraftFail == ~config.dry_run /\ Graft(FALSE)

\* scan_tree(raw_root) when exiftool exits with an error: run_json raises
\* CalledProcessError, which load_raw_metadata and run let through.
RawScanFails ==
    /\ pc = "load"
    /\ rawCache = <<>> \/ config.reindex
    /\ ToolFails(rawFiles, unreadable)
    /\ pc' = "aborted"
    /\ UNCHANGED <<merge, rawCache, unreadable, config, rawFiles, jpegFiles, refFiles, rawList,
                   jpegList, index, refCache, refLog, pos, result, counters, grafts,
                   metadata, creation>>

\* scan_tree(jpeg_root) when exiftool exits with an error.
JpegScanFails ==
    /\ pc = "scan"
    /\ ToolFails(jpegFiles, unreadable)
    /\ pc' = "aborted"
    /\ UNCHANGED <<merge, rawCache, unreadable, config, rawFiles, jpegFiles, refFiles, rawList,
                   jpegList, index, refCache, refLog, pos, result, counters, grafts,
                   metadata, creation>>

\* The loop is over: the summary.
Finish ==
    /\ pc = "loop"
    /\ pos > Len(jpegList)
    /\ pc' = "done"
    /\ UNCHANGED <<merge, rawCache, unreadable, config, rawFiles, jpegFiles, refFiles, rawList, jpegList, index,
                   refCache, refLog, pos, result, counters, grafts, metadata, creation>>

Next ==
    \/ LoadRawMetadata
    \/ BuildRawIndices
    \/ ScanJpegs
    \/ MatchJpeg
    \/ Ambiguous
    \/ Miss
    \/ GraftOk
    \/ GraftFail
    \/ Finish

-----------------------------------------------------------------------------
(* Bounded inputs *)

MaxRaw == 2        \* RAW records of a run
MaxJpeg == 2       \* JPEG records of a run
MaxIndexed == 2    \* RAW records under one matched JPEG

RECURSIVE ListsUpTo(_, _)
ListsUpTo(S, n) ==
    IF n = 0 THEN {<<>>}
    ELSE LET shorter == ListsUpTo(S, n - 1)
         IN  shorter \cup {Append(l, x) : l \in shorter, x \in S}

Configs(refs, serials, lenses, dries) ==
    [ref_root : refs, require_serial : serials, require_lens : lenses, dry_run : dries,
     reindex : {FALSE}, raw_root : {<<>>}]

\* The state after GPSCopier.__init__, for one choice of the arguments and
\* of what the three directories hold.
Start(cfg, raws, jpegs, refs) ==
    /\ config = cfg
    /\ rawFiles = raws
    /\ jpegFiles = jpegs
    /\ refFiles = refs
    /\ rawList = <<>>
    /\ jpegList = <<>>
    /\ index = EmptyIndex
    /\ refCache = EmptyMap
    /\ refLog = <<>>
    /\ pos = 1
    /\ result = NoResult
    /\ counters = NoCounters
    /\ grafts = <<>>
    /\ metadata = NoTags
    /\ creation = None
    /\ rawCache = <<>>
    /\ unreadable = {}
    /\ merge = NoMerge

Raw(path, create_date, shutter_count, serial) ==
    [NoTags EXCEPT !.SourceFile = path, !.CreateDate = create_date,
                   !.ShutterCount = shutter_count, !.SerialNumber = serial]

Jpeg(path, create_date, image_number, preserved, serial) ==
    [NoTags EXCEPT !.SourceFile = path, !.CreateDate = create_date,
                   !.ImageNumber = image_number, !.PreservedFileName = preserved,
                   !.SerialNumber = serial]

RefFile(path, data) == [path |-> path, data |-> data]

T1000 == Str(<<"1", "0", ":", "0", "0">>)
T1001 == Str(<<"1", "0", ":", "0", "1">>)
S1 == Str(<<"S", "1">>)
S2 == Str(<<"S", "2">>)
DirD_a_nef == <<"d", "/", "a", ".", "n", "e", "f">>
DirD_b_nef == <<"d", "/", "b", ".", "n", "e", "f">>
DirE_a_nef == <<"e", "/", "a", ".", "n", "e", "f">>
DirE_c_nef == <<"e", "/", "c", ".", "n", "e", "f">>
DirJ_a_jpg == <<"j", "/", "a", ".", "j", "p", "g">>
DirK_A_JPG == <<"k", "/", "A", ".", "J", "P", "G">>
DirJ_b_jpg == <<"j", "/", "b", ".", "j", "p", "g">>
Name_a_jpg == <<"a", ".", "j", "p", "g">>
Sub_a_jpg == <<"s", "/", "a", ".", "j", "p", "g">>
Sub_A_JPG == <<"s", "/", "A", ".", "J", "P", "G">>
Deep_a_jpg == <<"t", "/", "a", ".", "j", "p", "g">>

\* A run: three RAW files (two share a creation key, two share a file name),
\* three JPEGs (two share a lower-cased file name), a reference tree.
RunRaws == {Raw(DirD_a_nef, T1000, Num(1), S1),
            Raw(DirD_b_nef, T1000, Num(2), S2),
            Raw(DirE_a_nef, None, None, None)}

RunJpegs == {Jpeg(DirJ_a_jpg, T1000, None, None, S1),
             Jpeg(DirK_A_JPG, None, Str(<<"2">>), None, None),
             Jpeg(DirJ_b_jpg, None, None, Str(<<"A", ".", "N", "E", "F">>), None)}

RunRefTrees ==
    {<<RefFile(Name_a_jpg, <<Jpeg(Name_a_jpg, T1000, Num(1), None, None)>>)>>,
     <<RefFile(Sub_a_jpg, <<>>),
       RefFile(Deep_a_jpg, <<Jpeg(Deep_a_jpg, None, Num(2), None, S2)>>)>>}

Init ==
    \E cfg \in Configs(BOOLEAN, BOOLEAN, {FALSE}, BOOLEAN),
       raws \in ListsUpTo(RunRaws, MaxRaw),
       jpegs \in ListsUpTo(RunJpegs, MaxJpeg),
       refs \in RunRefTrees \cup {<<>>} :
        /\ cfg.ref_root \/ refs = <<>>
        /\ pc = "load"
        /\ Start(cfg, raws, jpegs, refs)

Spec == Init /\ [][Next]_vars

-----------------------------------------------------------------------------
(* One JPEG against an index of up to MaxIndexed RAW records. *)

L1 == Str(<<"L", "1">>)
A_NEF == Str(<<"A", ".", "N", "E", "F">>)

\* Five RAW records: two share a creation key, two share a file name, two
\* share a frame counter, and two are records of one path (a metadata list
\* read back from the cache file may hold whatever was written to it).
MatchRaws ==
    {[Raw(DirD_a_nef, T1000, Num(1), S1) EXCEPT !.LensID = L1],
     Raw(DirD_b_nef, T1000, Num(2), S2),
     [Raw(DirE_a_nef, None, None, None) EXCEPT !.BodySerialNumber = S1],
     [Raw(DirE_c_nef, T1001, None, S1) EXCEPT !.ImageNumber = Str(<<"2">>)],
     Raw(DirD_a_nef, T1001, Num(0), None)}

MatchJpegs ==
    {[Jpeg(DirJ_a_jpg, create_date, image_number, preserved, ident[1])
         EXCEPT !.LensModel = ident[2]] :
        create_date \in {None, T1000},
        image_number \in {None, Str(<<"2">>), Num(0)},
        preserved \in {None, A_NEF},
        ident \in {<<None, None>>, <<S1, None>>, <<None, L1>>, <<Num(7), None>>}}
    \cup {[Jpeg(DirJ_a_jpg, None, None, None, None) EXCEPT !.ShutterCount = Num(2)]}

MatchRefTrees ==
    {<<RefFile(Name_a_jpg, <<Jpeg(Name_a_jpg, T1001, Num(2), None, None)>>)>>,
     <<RefFile(Name_a_jpg, <<Jpeg(Name_a_jpg, None, None, A_NEF, S2)>>)>>}

InitMatch ==
    \E cfg \in Configs(BOOLEAN, BOOLEAN, BOOLEAN, {FALSE}),
       raws \in ListsUpTo(MatchRaws, MaxIndexed),
       jpeg \in MatchJpegs,
       refs \in MatchRefTrees \cup {<<>>} :
        /\ cfg.ref_root <=> refs # <<>>
        /\ pc = "load"
        /\ Start(cfg, raws, <<jpeg>>, refs)

SpecMatch == InitMatch /\ [][Next]_vars

-----------------------------------------------------------------------------
(* Runs one after the other with the cache file at one path: each run is   *)
(* given a RAW root and the reindex flag.                                  *)

RootP == <<"p">>
RootQ == <<"q">>
DirP_a_nef == <<"p", "/", "a", ".", "n", "e", "f">>
DirP_b_nef == <<"p", "/", "b", ".", "n", "e", "f">>
DirQ_a_nef == <<"q", "/", "a", ".", "n", "e", "f">>

\* What the two RAW roots hold.
RootFiles(root) ==
    IF root = RootP
    THEN <<Raw(DirP_a_nef, T1000, Num(1), S1), Raw(DirP_b_nef, T1000, Num(2), S2)>>
    ELSE <<Raw(DirQ_a_nef, T1000, Num(1), S1)>>

\* The path is below the root directory.
Under(root, path) ==
    /\ Len(path) > Len(root)
    /\ SubSeq(path, 1, Len(root)) = root
    /\ path[Len(root) + 1] = "/"

InitRuns ==
    \E root \in {RootP, RootQ}, reindex \in BOOLEAN,
       jpegs \in ListsUpTo(RunJpegs, MaxJpeg),
       failing \in {{}, {DirP_b_nef}, {DirJ_a_jpg}} :
        /\ pc = "load"
        /\ config = [ref_root |-> FALSE, require_serial |-> FALSE,
                     require_lens |-> FALSE, dry_run |-> FALSE,
                     reindex |-> reindex, raw_root |-> root]
        /\ rawFiles = RootFiles(root)
        /\ jpegFiles = jpegs
        /\ refFiles = <<>>
        /\ rawList = <<>>
        /\ jpegList = <<>>
        /\ index = EmptyIndex
        /\ refCache = EmptyMap
        /\ refLog = <<>>
        /\ pos = 1
        /\ result = NoResult
        /\ counters = NoCounters
        /\ grafts = <<>>
        /\ metadata = NoTags
        /\ creation = None
        /\ rawCache = <<>>
        /\ unreadable = failing
        /\ merge = NoMerge

\* main() once more, after the process has ended: a new GPSCopier with a
\* RAW root and the reindex flag; the files and the cache file stay.
NewRun ==
    /\ pc \in {"done", "aborted"}
    /\ \E root \in {RootP, RootQ}, reindex \in BOOLEAN :
           /\ config' = [config EXCEPT !.raw_root = root, !.reindex = reindex]
           /\ rawFiles' = RootFiles(root)
    /\ pc' = "load"
    /\ rawList' = <<>>
    /\ jpegList' = <<>>
    /\ index' = EmptyIndex
    /\ refCache' = EmptyMap
    /\ refLog' = <<>>
    /\ pos' = 1
    /\ result' = NoResult
    /\ counters' = NoCounters
    /\ grafts' = <<>>
    /\ UNCHANGED <<merge, rawCache, unreadable, jpegFiles, refFiles, metadata, creation>>

NextRuns ==
    \/ Next
    \/ RawScanFails
    \/ JpegScanFails
    \/ NewRun

SpecRuns == InitRuns /\ [][NextRuns]_vars

-----------------------------------------------------------------------------
(* RefLookup.find on its own: up to MaxFinds calls on one resolver. *)

MaxFinds == 3      \* calls of find on one resolver

A_JPG == <<"A", ".", "J", "P", "G">>
FindNames == {Name_a_jpg, A_JPG, <<"b", ".", "j", "p", "g">>}

RefRecord == <<Jpeg(Name_a_jpg, T1000, Num(1), None, None)>>

\* Reference trees: empty; the file directly below the root, readable or
\* not; two files of the name further down, the first unreadable; a file
\* whose name differs in case only.
FindRefTrees ==
    {<<>>,
     <<RefFile(Name_a_jpg, RefRecord)>>,
     <<RefFile(Name_a_jpg, <<>>), RefFile(Deep_a_jpg, RefRecord)>>,
     <<RefFile(Sub_a_jpg, <<>>), RefFile(Deep_a_jpg, RefRecord)>>,
     <<RefFile(Sub_a_jpg, <<>>), RefFile(Deep_a_jpg, <<>>)>>,
     <<RefFile(Sub_A_JPG, RefRecord)>>}

InitFind ==
    \E refs \in FindRefTrees :
        /\ pc = "find"
        /\ Start([ref_root |-> TRUE, require_serial |-> FALSE, require_lens |-> FALSE,
                  dry_run |-> FALSE, reindex |-> FALSE, raw_root |-> <<>>], <<>>, <<>>, refs)

FindsSoFar == Len(SelectSeq(refLog, LAMBDA e : e.ev = "find"))

FindCalled(filename, found) ==
    /\ refCache' = CacheAfterFind(refCache, filename, found)
    /\ refLog' = refLog \o FindEvents(filename, found)

\* One call of ref_lookup.find(filename).
FindCall ==
    /\ pc = "find"
    /\ config.ref_root
    /\ FindsSoFar < MaxFinds
    /\ \E filename \in FindNames :
           FindCalled(filename, find(refFiles, refCache, filename))
    /\ UNCHANGED <<merge, rawCache, unreadable, pc, config, rawFiles, jpegFiles, refFiles, rawList, jpegList, index,
                   pos, result, counters, grafts, metadata, creation>>

SpecFind == InitFind /\ [][FindCall]_vars

-----------------------------------------------------------------------------
(* compose_creation on its own: one record in, one key out. *)

ComposeCreateDates ==
    {None, Str(<<>>), T1000, Str(<<"1", "0", ":", "0", "0", ".", "4">>), Str(<<"1", "0", ":", "0", "0", "+", "0", "2", ":", "0", "0">>),
     Str(<<"1", "0", ":", "0", "0", ".", "4", "+", "0", "2", ":", "0", "0">>)}

ComposeInputs ==
    {[NoTags EXCEPT !.CreateDate = cd, !.SubSecTimeDigitized = sd,
                    !.SubSecTimeOriginal = so, !.SubSecTime = sg,
                    !.OffsetTimeDigitized = od, !.OffsetTimeOriginal = oo,
                    !.OffsetTime = og, !.DateCreated = dc, !.TimeCreated = tc] :
        cd \in ComposeCreateDates,
        sd \in {None, Str(<<>>), Str(<<"1">>), Num(0)},
        so \in {None, Str(<<"2">>), Num(0)},
        sg \in {None, Str(<<>>), Str(<<"3">>), Num(0)},
        od \in {None, Str(<<"+", "0", "1", ":", "0", "0">>)},
        oo \in {None, Str(<<>>), Str(<<"+", "0", "2", ":", "0", "0">>)},
        og \in {None, Str(<<"-", "0", "3", ":", "0", "0">>)},
        dc \in {None, Str(<<"0", "5", ":", "0", "1">>)},
        tc \in {None, T1000, Str(<<"1", "0", ":", "0", "0", "+", "0", "2", ":", "0", "0">>)}}

InitCompose ==
    /\ pc = "compose"
    /\ metadata \in ComposeInputs
    /\ creation = None
    /\ config = [ref_root |-> FALSE, require_serial |-> FALSE, require_lens |-> FALSE,
                 dry_run |-> FALSE, reindex |-> FALSE, raw_root |-> <<>>]
    /\ rawFiles = <<>>
    /\ jpegFiles = <<>>
    /\ refFiles = <<>>
    /\ rawList = <<>>
    /\ jpegList = <<>>
    /\ index = EmptyIndex
    /\ refCache = EmptyMap
    /\ refLog = <<>>
    /\ pos = 1
    /\ result = NoResult
    /\ counters = NoCounters
    /\ grafts = <<>>
    /\ rawCache = <<>>
    /\ unreadable = {}
    /\ merge = NoMerge

ComposeCreation ==
    /\ pc = "compose"
    /\ creation' = compose_creation(metadata)
    /\ pc' = "composed"
    /\ UNCHANGED <<merge, rawCache, unreadable, config, rawFiles, jpegFiles, refFiles, rawList, jpegList, index,
                   refCache, refLog, pos, result, counters, grafts, metadata>>

SpecCompose == InitCompose /\ [][ComposeCreation]_vars

\* The string compose_creation starts from: CreateDate, else
\* "<DateCreated> <TimeCreated>".
StartText(md) ==
    IF Truthy(md.CreateDate) THEN Text(md.CreateDate)
    ELSE Text(md.DateCreated) \o <<" ">> \o Text(md.TimeCreated)

CountChar(s, c) == Cardinality({k \in 1..Len(s) : s[k] = c})

\* The UTC offsets written in s: a sign followed by hh:mm.
CountOffsets(s) ==
    Cardinality({k \in 1..(Len(s) - 5) : s[k] \in {"+", "-"} /\ s[k + 3] = ":"})

\* C8: compose_creation never double-augments: a start string with a '.'
\* gets no sub-second value, a start string ending in a UTC offset gets no
\* offset value, and the key carries at most one sub-second part and at
\* most one offset.
C8_NoDoubleAugment ==
    (pc = "composed" /\ creation # None) =>
        /\ _has_subsec(StartText(metadata)) =>
               CountChar(creation.s, ".") = CountChar(StartText(metadata), ".")
        /\ _has_offset(StartText(metadata)) =>
               CountOffsets(creation.s) = CountOffsets(StartText(metadata))
        /\ CountChar(creation.s, ".") <= 1
        /\ CountOffsets(creation.s) <= 1

\* A tag is present when the tool returned a value for it: a number, or a
\* string that is not empty.
Present(v) == v.t = "num" \/ (v.t = "str" /\ v.s # <<>>)

FirstPresent(a, b, c) ==
    IF Present(a) THEN a ELSE IF Present(b) THEN b ELSE IF Present(c) THEN c ELSE None

AugmentedOffset(s, offset) ==
    IF ~_has_offset(s) /\ Present(offset) THEN s \o Text(offset) ELSE s

\* The augmentation of section 4.1 of the specification.
Augmented(s, sub, offset) ==
    AugmentedOffset(IF ~_has_subsec(s) /\ Present(sub) THEN s \o <<".">> \o Text(sub) ELSE s,
                    offset)

\* The composition of section 4.1 of the specification.
ComposedPerSpec(md) ==
    IF Present(md.CreateDate)
    THEN Str(Augmented(Text(md.CreateDate),
                       FirstPresent(md.SubSecTimeDigitized, md.SubSecTimeOriginal,
                                    md.SubSecTime),
                       FirstPresent(md.OffsetTimeDigitized, md.OffsetTimeOriginal,
                                    md.OffsetTime)))
    ELSE IF Present(md.DateCreated) /\ Present(md.TimeCreated)
         THEN Str(Augmented(Text(md.DateCreated) \o <<" ">> \o Text(md.TimeCreated),
                            FirstPresent(md.SubSecTime, md.SubSecTimeDigitized,
                                         md.SubSecTimeOriginal),
                            FirstPresent(md.OffsetTimeDigitized, md.OffsetTimeOriginal,
                                         md.OffsetTime)))
         ELSE None

\* C9: compose_creation equals the composition the specification
\* describes, for every record.
C9_ComposeAsSpecified ==
    pc = "composed" => creation = ComposedPerSpec(metadata)

-----------------------------------------------------------------------------
(* Claims about the matcher's outcome and the run loop (Spec) *)

Paths(entries) == {entries[k].path : k \in 1..Len(entries)}

\* C1: the triple match_jpeg_to_raw returns follows the number of distinct
\* RAW files that survive the cascade and the filters: several give
\* (absent, used, TRUE), one gives (that entry, used, FALSE), none gives
\* (absent, used, FALSE); never an entry together with was_ambiguous.
C1_OutcomeRules ==
    pc = "matched" =>
        /\ Cardinality(Paths(result.candidates)) > 1 =>
               result.best_raw = <<>> /\ result.was_ambiguous
        /\ Cardinality(Paths(result.candidates)) = 1 =>
               /\ result.best_raw = <<result.candidates[1]>>
               /\ ~result.was_ambiguous
        /\ Cardinality(Paths(result.candidates)) = 0 =>
               result.best_raw = <<>> /\ ~result.was_ambiguous
        /\ ~(result.best_raw # <<>> /\ result.was_ambiguous)

\* A JPEG left with several candidates, reported ambiguous.
C1_Witness ==
    /\ pc = "matched"
    /\ Len(result.candidates) > 1
    /\ result.was_ambiguous
    /\ result.best_raw = <<>>

\* One step of run() that invokes copy_gps does so for the JPEG at pos,
\* whose match is an entry and not ambiguous, from that entry's path to
\* that JPEG's path, and no earlier invocation was for that JPEG.
GraftStepJustified ==
    grafts' # grafts =>
        /\ pc = "matched"
        /\ result.best_raw # <<>>
        /\ ~result.was_ambiguous
        /\ Len(grafts') = Len(grafts) + 1
        /\ SubSeq(grafts', 1, Len(grafts)) = grafts
        /\ grafts'[Len(grafts')].source = result.best_raw[1].path
        /\ grafts'[Len(grafts')].target = jpegList[pos].SourceFile
        /\ grafts'[Len(grafts')].pos = pos
        /\ \A k \in 1..Len(grafts) : grafts[k].pos < pos

\* C2: in run(), copy_gps is invoked at most once per JPEG, only after an
\* unambiguous non-absent match for it, with the match's path as source and
\* the JPEG's path as target; never for an ambiguous or unmatched JPEG.
C2_GraftOnlyResolvedMatch == [][GraftStepJustified]_vars

\* A run that grafted one JPEG and skipped an ambiguous one.
C2_Witness ==
    /\ pc = "done"
    /\ Len(grafts) = 1
    /\ counters.ambiguous = 1
    /\ Len(jpegList) = 2

-----------------------------------------------------------------------------
(* Claims about the cascade and the filters (SpecMatch) *)

FiltersOff == ~config.require_serial /\ ~config.require_lens

\* The paths of the RAW records whose creation key is key.
RawPathsWithKey(key) ==
    {rawList[k].SourceFile : k \in {j \in 1..Len(rawList) :
                                       compose_creation(rawList[j]) = key}}

\* The paths of the RAW records whose frame counter is n.
RawPathsWithCounter(n) ==
    {rawList[k].SourceFile : k \in {j \in 1..Len(rawList) :
                                       RawShutterCount(rawList[j]) = n}}

\* The paths of the RAW records whose lower-cased file name stem is stem.
RawPathsWithStem(stem) ==
    {rawList[k].SourceFile : k \in {j \in 1..Len(rawList) :
                                       lower(PathStem(rawList[j].SourceFile)) = stem}}

ResolvedWithin(paths) ==
    /\ result.best_raw # <<>>
    /\ result.best_raw[1].path \in paths
    /\ ~result.was_ambiguous

UniqueKey(jpeg_metadata) ==
    /\ Truthy(compose_creation(jpeg_metadata))
    /\ Cardinality(RawPathsWithKey(compose_creation(jpeg_metadata))) = 1

\* C3: with the filters off, a JPEG whose creation key is the key of exactly
\* one RAW path is matched to that RAW entry, not ambiguous and without the
\* reference, whatever the frame-counter and file-name buckets hold.
C3_UniqueKeyWins ==
    (pc = "matched" /\ FiltersOff /\ UniqueKey(jpegList[pos])) =>
        /\ ResolvedWithin(RawPathsWithKey(compose_creation(jpegList[pos])))
        /\ result.best_raw[1].CreateKey = compose_creation(jpegList[pos])
        /\ ~result.used_ref

\* The JPEG's key has one RAW, its ImageNumber is the frame counter of
\* another RAW, and the RAW of the key is the match.
C3_Witness ==
    /\ pc = "matched" /\ FiltersOff /\ UniqueKey(jpegList[pos])
    /\ to_int(jpegList[pos].ImageNumber) # None
    /\ RawPathsWithCounter(to_int(jpegList[pos].ImageNumber))
           \ RawPathsWithKey(compose_creation(jpegList[pos])) # {}
    /\ ResolvedWithin(RawPathsWithKey(compose_creation(jpegList[pos])))

\* Two RAW files share the key and differ in their frame counters.
TwoCountersUnder(key) ==
    \E a, b \in 1..Len(rawList) :
        /\ rawList[a].SourceFile # rawList[b].SourceFile
        /\ compose_creation(rawList[a]) = key
        /\ compose_creation(rawList[b]) = key
        /\ RawShutterCount(rawList[a]) # RawShutterCount(rawList[b])

CounterDecides(jpeg_metadata) ==
    /\ Truthy(compose_creation(jpeg_metadata))
    /\ TwoCountersUnder(compose_creation(jpeg_metadata))
    /\ to_int(jpeg_metadata.ImageNumber) # None
    /\ Cardinality(RawPathsWithCounter(to_int(jpeg_metadata.ImageNumber))) = 1

\* C4: with the filters off, when two RAW files share the JPEG's creation key
\* with different frame counters and the JPEG's ImageNumber is the frame
\* counter of exactly one RAW file, that RAW file is the match, not ambiguous.
C4_CounterNarrows ==
    (pc = "matched" /\ FiltersOff /\ CounterDecides(jpegList[pos])) =>
        ResolvedWithin(RawPathsWithCounter(to_int(jpegList[pos].ImageNumber)))

\* The key left two candidates and the frame counter chose between them.
C4_Witness ==
    /\ pc = "matched" /\ FiltersOff /\ CounterDecides(jpegList[pos])
    /\ Len(result.primary) = 2
    /\ result.best_raw # <<>>
    /\ result.best_raw[1].path \in Paths(result.primary)
    /\ result.best_raw[1].ShutterCount = to_int(jpegList[pos].ImageNumber)

NameDecides(jpeg_metadata) ==
    /\ ~Truthy(compose_creation(jpeg_metadata))
    /\ to_int(jpeg_metadata.ImageNumber) = None
    /\ jpeg_metadata.PreservedFileName.t = "str"
    /\ Cardinality(RawPathsWithStem(
           lower(PathStem(jpeg_metadata.PreservedFileName.s)))) = 1

\* C5: without a reference root and with the filters off, a JPEG with no
\* creation key and no frame counter whose PreservedFileName, lower-cased and
\* without its extension, is the file-name stem of exactly one RAW file is
\* matched to that RAW file, not ambiguous and without the reference.
C5_PreservedNameResolves ==
    (pc = "matched" /\ ~config.ref_root /\ FiltersOff /\ NameDecides(jpegList[pos])) =>
        /\ ResolvedWithin(RawPathsWithStem(
               lower(PathStem(jpegList[pos].PreservedFileName.s))))
        /\ ~result.used_ref

\* The name differs from the RAW's in case and it found the RAW.
C5_Witness ==
    /\ pc = "matched" /\ ~config.ref_root /\ FiltersOff /\ NameDecides(jpegList[pos])
    /\ result.primary = <<>>
    /\ result.best_raw # <<>>
    /\ PathName(result.best_raw[1].path) # jpegList[pos].PreservedFileName.s
    /\ Len(rawList) > 1

\* No serial number in the JPEG record nor in the reference record, if one
\* was looked up.
NoSerialKnown ==
    /\ jpegList[pos].SerialNumber = None
    /\ result.ref_metadata # <<>> => result.ref_metadata[1].SerialNumber = None

NoLensKnown ==
    /\ jpegList[pos].LensID = None /\ jpegList[pos].LensModel = None
    /\ result.ref_metadata # <<>> =>
           /\ result.ref_metadata[1].LensID = None
           /\ result.ref_metadata[1].LensModel = None

\* C6: with require_serial on and no serial number known from the JPEG or the
\* reference record, the serial filter returns the candidates it was given,
\* in their order; the same for require_lens with no lens known.
C6_UnknownValueNoFilter ==
    pc = "matched" =>
        /\ (config.require_serial /\ NoSerialKnown) =>
               result.after_serial = result.unfiltered
        /\ (config.require_lens /\ NoLensKnown) =>
               result.candidates = result.after_serial

\* Both requirements on, nothing known, and candidates that carry a serial
\* number and a lens are all still there.
C6_Witness ==
    /\ pc = "matched"
    /\ config.require_serial /\ config.require_lens
    /\ NoSerialKnown /\ NoLensKnown
    /\ result.unfiltered # <<>>
    /\ \E k \in 1..Len(result.unfiltered) :
           /\ Truthy(result.unfiltered[k].SerialNumber)
           /\ Truthy(result.unfiltered[k].LensID)
    /\ result.candidates = result.unfiltered

-----------------------------------------------------------------------------
(* Claims about RefLookup.find (SpecFind) *)

LogKeys == {refLog[k].key : k \in 1..Len(refLog)}

Events(ev, key) == {k \in 1..Len(refLog) : refLog[k].ev = ev /\ refLog[k].key = key}

FirstFind(key) == CHOOSE k \in Events("find", key) : \A j \in Events("find", key) : k <= j

\* Every call for the key returns what the first call for it returned.
LaterCallsReturnFirst(key) ==
    \A k \in Events("find", key) : refLog[k].ret = refLog[FirstFind(key)].ret

\* C7 as stated: per lower-cased file name at most one filesystem search and
\* at most one external read, and every later call returns the value of the
\* first, a negative one too.
C7_OneSearchOneRead ==
    \A key \in LogKeys :
        /\ Cardinality(Events("search", key)) <= 1
        /\ Cardinality(Events("read", key)) <= 1
        /\ LaterCallsReturnFirst(key)

\* C7: per lower-cased file name there is at most one filesystem search, the
\* external reads all belong to the first call for the name (one for each
\* candidate file until one gives a record), and every later call returns the
\* value of the first, a negative one too.
C7_SearchOnceReadInFirstCall ==
    \A key \in LogKeys :
        /\ Cardinality(Events("search", key)) <= 1
        /\ \A k \in Events("read", key) : k < FirstFind(key)
        /\ \A k \in Events("search", key) : k < FirstFind(key)
        /\ LaterCallsReturnFirst(key)

\* Three calls for one name: the first read two files and found nothing, the
\* later ones returned that from the cache.
C7_Witness ==
    \E key \in LogKeys :
        /\ Cardinality(Events("find", key)) = 3
        /\ Cardinality(Events("search", key)) = 1
        /\ Cardinality(Events("read", key)) = 2
        /\ refLog[FirstFind(key)].ret = <<>>
        /\ \E k \in Events("find", key) : refLog[k].path # refLog[FirstFind(key)].path

-----------------------------------------------------------------------------
(* Claims about the buckets (SpecMatch) *)

DistinctPaths(entries) ==
    \A i, j \in 1..Len(entries) : i # j => entries[i].path # entries[j].path

BucketsDistinct(map) == \A key \in DOMAIN map : DistinctPaths(map[key])

-----------------------------------------------------------------------------
(* Claims about failing reads and the cache file (SpecRuns) *)

InSomeBucket(path) ==
    \E key \in DOMAIN index.by_name :
        \E k \in 1..Len(index.by_name[key]) : index.by_name[key][k].path = path

\* C11: a file the metadata tool fails on during the RAW or the JPEG scan
\* does not abort the run: no exception leaves run(), the file is in no
\* bucket, and the other files of the scan are indexed and every JPEG that
\* was read is matched.
C11_ReadFailureTolerated ==
    /\ pc # "aborted"
    /\ pc = "done" =>
           /\ pos = Len(jpegList) + 1
           /\ \A k \in 1..Len(rawFiles) :
                  InSomeBucket(rawFiles[k].SourceFile)
                      <=> rawFiles[k].SourceFile \notin unreadable

\* C13: a run without reindex builds its index only from records of files
\* below its own RAW root, whatever runs wrote the cache file before.
C13_CacheOfThisRoot ==
    (pc # "load" /\ ~config.reindex) =>
        \A k \in 1..Len(rawList) : Under(config.raw_root, rawList[k].SourceFile)

-----------------------------------------------------------------------------
(* Claims about a failing graft (Spec) *)

\* A step in which copy_gps returned False counts the JPEG as matched, not
\* as copied, and goes to the next JPEG of the same list.
GraftFailureStep ==
    (grafts' # grafts /\ ~grafts'[Len(grafts')].ok) =>
        /\ counters'.matched = counters.matched + 1
        /\ counters'.copied = counters.copied
        /\ pc' = "loop"
        /\ pos' = pos + 1
        /\ jpegList' = jpegList

\* C12: a failed graft counts the JPEG as matched but not as copied, and
\* the loop of run() goes on: it ends only behind the last JPEG of the list.
C12_GraftFailureGoesOn ==
    /\ [][GraftFailureStep]_vars
    /\ [](pc = "done" => pos = Len(jpegList) + 1)

\* The graft of the first JPEG failed and the second JPEG was grafted.
C12_Witness ==
    /\ pc = "done"
    /\ Len(grafts) = 2
    /\ ~grafts[1].ok /\ grafts[1].pos = 1
    /\ grafts[2].ok /\ grafts[2].pos = 2
    /\ counters.matched = 2
    /\ counters.copied = 1

-----------------------------------------------------------------------------
(* Claims about the frame counter of the JPEG (SpecMatch) *)

\* The creation-key lookup gave nothing and exactly one RAW file has the
\* frame counter n.
CounterAlone(n) ==
    /\ result.primary = <<>>
    /\ n # None
    /\ Cardinality(RawPathsWithCounter(n)) = 1

\* C14 as stated: a JPEG file that carries ShutterCount = n and no
\* ImageNumber, whose creation-key lookup is empty and for which exactly one
\* RAW file has the frame counter n, is matched to that RAW file.
C14_SelfCounterFromShutterCount ==
    (/\ pc = "matched" /\ FiltersOff
     /\ jpegFiles[pos].ImageNumber = None
     /\ CounterAlone(to_int(jpegFiles[pos].ShutterCount))) =>
        ResolvedWithin(RawPathsWithCounter(to_int(jpegFiles[pos].ShutterCount)))

\* C14: the self frame-counter fallback takes the JPEG's ImageNumber and
\* nothing else: with the filters off, a JPEG with ImageNumber = n whose
\* creation-key lookup is empty and for which exactly one RAW file has the
\* frame counter n is matched to that RAW file without the reference; a
\* JPEG record never holds a ShutterCount, and without an ImageNumber the
\* fallback gives nothing.
C14_SelfCounterFromImageNumber ==
    pc = "matched" =>
        /\ (FiltersOff /\ CounterAlone(to_int(jpegList[pos].ImageNumber))) =>
               /\ ResolvedWithin(RawPathsWithCounter(to_int(jpegList[pos].ImageNumber)))
               /\ ~result.used_ref
        /\ jpegList[pos].ShutterCount = None
        /\ jpegList[pos].MechanicalShutterCount = None
        /\ to_int(jpegList[pos].ImageNumber) = None => result.self_c_sc = <<>>

\* No key, an ImageNumber, and the one RAW file with that frame counter is
\* the match.
C14_Witness ==
    /\ pc = "matched" /\ FiltersOff
    /\ CounterAlone(to_int(jpegList[pos].ImageNumber))
    /\ Len(rawList) > 1
    /\ result.best_raw # <<>>
    /\ result.best_raw[1].ShutterCount = to_int(jpegList[pos].ImageNumber)
    /\ result.self_c_sc = result.best_raw

-----------------------------------------------------------------------------
(* Claims about narrowing by the creation key (SpecMatch) *)

Entries(list) == {list[k] : k \in 1..Len(list)}

SharingKey(lookup, key) == {e \in Entries(lookup) : e.CreateKey = key}

\* What a fallback may return for what it read out of its buckets.
NarrowedOrKept(returned, lookup, key) ==
    /\ lookup # <<>> => returned # <<>>
    /\ IF Len(lookup) > 1 /\ Truthy(key) /\ SharingKey(lookup, key) # {}
       THEN /\ Entries(returned) = SharingKey(lookup, key)
            /\ Len(returned) = Cardinality(SharingKey(lookup, key))
       ELSE returned = lookup

\* The frame-counter bucket of n, one entry for each path.
CounterLookup(n) ==
    IF n = None THEN <<>> ELSE DedupByPath(Bucket(index.by_shutter, n.n))

\* The exact-name and stem buckets of a preserved file name, one entry for
\* each path.
NameLookup(name) ==
    IF ~Truthy(name) THEN <<>>
    ELSE DedupByPath(Bucket(index.by_name, lower(name.s))
                     \o Bucket(index.by_basename, lower(PathStem(name.s))))

SelfNameCalled ==
    /\ Undecided(result.primary)
    /\ Undecided(Prefer(result.self_c_sc, result.primary))
    /\ Truthy(jpegList[pos].PreservedFileName)

RefNameCalled ==
    /\ result.ref_metadata # <<>>
    /\ Undecided(Prefer(result.ref_c_sc, result.self_candidates))

\* C15: each call of the frame-counter fallback and of the preserved-name
\* fallback, with the JPEG's values or with the reference record's, returns
\* the candidates of its lookup that share the creation key when there are
\* several candidates, a key and at least one such candidate, and the whole
\* lookup otherwise; so it returns something whenever the lookup is not empty.
C15_NarrowOrKeep ==
    pc = "matched" =>
        /\ Undecided(result.primary) =>
               NarrowedOrKept(result.self_c_sc,
                              CounterLookup(to_int(jpegList[pos].ImageNumber)),
                              result.jpeg_key)
        /\ SelfNameCalled =>
               NarrowedOrKept(result.self_c_name,
                              NameLookup(jpegList[pos].PreservedFileName),
                              result.jpeg_key)
        /\ result.ref_metadata # <<>> =>
               NarrowedOrKept(result.ref_c_sc,
                              CounterLookup(to_int(result.ref_metadata[1].ImageNumber)),
                              result.ref_key)
        /\ RefNameCalled =>
               NarrowedOrKept(result.ref_c_name,
                              NameLookup(result.ref_metadata[1].PreservedFileName),
                              result.ref_key)

\* The name lookup gave two candidates, none with the JPEG's key, and both
\* were kept.
C15_Witness ==
    /\ pc = "matched"
    /\ SelfNameCalled
    /\ Truthy(result.jpeg_key)
    /\ Len(result.self_c_name) = 2
    /\ SharingKey(result.self_c_name, result.jpeg_key) = {}

\* The frame-counter lookup with the reference record's ImageNumber gave
\* two candidates and the key chose one.
C15_WitnessNarrowed ==
    /\ pc = "matched"
    /\ result.ref_metadata # <<>>
    /\ Len(CounterLookup(to_int(result.ref_metadata[1].ImageNumber))) = 2
    /\ Len(result.ref_c_sc) = 1

-----------------------------------------------------------------------------
(* Claims about the reference cross-check (SpecMatch) *)

\* A stage of the reference cross-check that gave exactly one candidate.
RefStageDecided ==
    Len(result.ref_c_sc) = 1 \/ Len(result.ref_c_name) = 1

\* C16: match_jpeg_to_raw returns used_ref true only if a reference root
\* is configured, the self stages left no candidate or several, find
\* returned a record, and one of the two fallbacks run with the record's
\* values gave exactly one candidate; a reference stage whose results all
\* have several candidates leaves used_ref false; and find is not called
\* when the self stages left exactly one candidate.
C16_UsedRefOnlyWhenRefDecides ==
    pc = "matched" =>
        /\ result.used_ref =>
               /\ config.ref_root
               /\ Undecided(result.self_candidates)
               /\ result.consulted
               /\ result.ref_metadata # <<>>
               /\ RefStageDecided
        /\ ~RefStageDecided => ~result.used_ref
        /\ Len(result.self_candidates) = 1 =>
               /\ ~result.consulted
               /\ refLog = <<>>
               /\ result.ref_metadata = <<>>

\* The reference record's frame counter chose one RAW among several the
\* JPEG could not choose from, and the reference is marked used.
C16_Witness ==
    /\ pc = "matched"
    /\ result.used_ref
    /\ config.ref_root
    /\ result.self_candidates = <<>>
    /\ Len(CounterLookup(to_int(result.ref_metadata[1].ImageNumber))) = 2
    /\ Len(result.ref_c_sc) = 1
    /\ result.best_raw # <<>>

\* A reference stage gave several candidates and the reference is not
\* marked used.
C16_WitnessSeveral ==
    /\ pc = "matched"
    /\ result.consulted
    /\ Len(result.ref_c_name) > 1
    /\ ~result.used_ref
    /\ result.was_ambiguous
-----------------------------------------------------------------------------
(* Claims about the serial and lens filters (SpecMatch) *)

\* The wanted value: the JPEG's own tag if present, else the reference
\* record's tag.
WantedSerial ==
    IF jpegList[pos].SerialNumber # None THEN jpegList[pos].SerialNumber
    ELSE IF result.ref_metadata # <<>> THEN result.ref_metadata[1].SerialNumber
         ELSE None

WantedLens ==
    IF jpegList[pos].LensID # None THEN jpegList[pos].LensID
    ELSE IF jpegList[pos].LensModel # None THEN jpegList[pos].LensModel
    ELSE IF result.ref_metadata = <<>> THEN None
    ELSE IF result.ref_metadata[1].LensID # None THEN result.ref_metadata[1].LensID
         ELSE result.ref_metadata[1].LensModel

\* A tag value as text, lower-cased and trimmed; a number by its digits.
IdentityText(v) == IF v.t = "str" THEN strip(lower(v.s)) ELSE NatText(v.n)

\* The candidate carries the field and its value equals the wanted one.
SameIdentity(a, want) == a # None /\ IdentityText(a) = IdentityText(want)

\* C17: with require_serial on and a wanted serial number, the candidates
\* after the serial filter are exactly those whose serial number equals the
\* wanted one case-insensitively after trimming, whether the tool returned
\* strings or numbers, so a candidate without the field or with another
\* value is dropped; the same for require_lens and the lens identifier.
C17_FilterKeepsExactlyEqual ==
    (pc = "matched" /\ result.unfiltered # <<>>) =>
        /\ (config.require_serial /\ WantedSerial # None) =>
               Paths(result.after_serial) =
                   {c.path : c \in {e \in Entries(result.unfiltered) :
                                       SameIdentity(e.SerialNumber, WantedSerial)}}
        /\ (config.require_lens /\ WantedLens # None) =>
               Paths(result.candidates) =
                   {c.path : c \in {e \in Entries(result.after_serial) :
                                       SameIdentity(e.LensID, WantedLens)}}
-----------------------------------------------------------------------------
(* Claims about the body identifier (SpecMatch) *)

\* serialNumber, else cameraSerialNumber, else bodySerialNumber.
BodyIdentifier(file) ==
    IF file.SerialNumber # None THEN file.SerialNumber
    ELSE IF file.CameraSerialNumber # None THEN file.CameraSerialNumber
         ELSE file.BodySerialNumber

\* The body identifiers of the RAW files at a path.
IdentifiersAt(path) ==
    {BodyIdentifier(rawFiles[k]) :
        k \in {j \in 1..Len(rawFiles) : rawFiles[j].SourceFile = path}}

\* C18: the serial identity of a RAW entry is the file's serialNumber, else
\* its cameraSerialNumber, else its bodySerialNumber, and a candidate whose
\* identity so derived equals the JPEG's serial number is kept by the
\* require_serial filter.
C18_BodyIdentifierDerived ==
    pc = "matched" =>
        /\ \A name \in DOMAIN index.by_name :
               \A e \in Entries(index.by_name[name]) :
                   e.SerialNumber \in IdentifiersAt(e.path)
        /\ (config.require_serial /\ jpegList[pos].SerialNumber.t = "str") =>
               \A e \in Entries(result.unfiltered) :
                   IdentifiersAt(e.path) = {jpegList[pos].SerialNumber} =>
                       e.path \in Paths(result.after_serial)
-----------------------------------------------------------------------------
(* build_raw_indices alone, over RAW records with varied counters (SpecIndex) *)

MaxIndexRaws == 2

DirD_B_NEF == <<"d", "/", "B", ".", "N", "E", "F">>

IndexPaths == {DirD_a_nef, DirD_B_NEF, DirE_a_nef}

Txt_12 == Str(<<" ", "1", "2", " ">>)
Txt_5 == Str(<<"5">>)
Txt_7 == Str(<<"7", " ">>)
Txt_x == Str(<<"x">>)
Txt_1_5 == Str(<<"1", ".", "5">>)
Txt_empty == Str(<<>>)

\* ShutterCount, MechanicalShutterCount, ImageNumber as the tool may print
\* them: missing, a string, a number.
IndexCounters ==
    {<<None, None, None>>,
     <<Txt_12, Txt_5, Num(3)>>,
     <<Txt_x, Txt_5, Num(3)>>,
     <<Txt_empty, Txt_1_5, Txt_7>>,
     <<None, Txt_x, Txt_1_5>>,
     <<Num(0), Txt_5, None>>}

IndexRaw(path, create_date, c) ==
    [Raw(path, create_date, c[1], None)
        EXCEPT !.MechanicalShutterCount = c[2], !.ImageNumber = c[3]]

IndexRaws ==
    {IndexRaw(path, create_date, c) :
        path \in IndexPaths, create_date \in {None, T1000}, c \in IndexCounters}
    \cup {IndexRaw(DirD_a_nef, Num(2020), <<Txt_x, None, None>>)}

\* A directory holds each path once.
InitIndex ==
    \E cfg \in Configs({FALSE}, {FALSE}, {FALSE}, {FALSE}),
       raws \in ListsUpTo(IndexRaws, MaxIndexRaws) :
        /\ \A j, k \in 1..Len(raws) : raws[j].SourceFile = raws[k].SourceFile => j = k
        /\ pc = "load"
        /\ Start(cfg, raws, <<>>, <<>>)

\* build_raw_indices left by the TypeError of compose_creation; nothing in
\* run catches it.
BuildFails ==
    /\ pc = "build"
    /\ \E k \in 1..Len(rawList) : ComposeRaises(rawList[k])
    /\ pc' = "aborted"
    /\ UNCHANGED <<merge, rawCache, unreadable, config, rawFiles, jpegFiles, refFiles, rawList,
                   jpegList, index, refCache, refLog, pos, result, counters, grafts,
                   metadata, creation>>

NextIndex == LoadRawMetadata \/ BuildRawIndices \/ BuildFails

SpecIndex == InitIndex /\ [][NextIndex]_vars
-----------------------------------------------------------------------------
(* Claims about the frame counter of a RAW entry (SpecIndex) *)

\* The integer a tag value stands for once trimmed, None when it stands
\* for none, by cases over the values of IndexCounters.
IntegerOf(v) ==
    CASE v = Txt_12 -> Num(12)
      [] v = Txt_5 -> Num(5)
      [] v = Txt_7 -> Num(7)
      [] v = Num(3) -> Num(3)
      [] v = Num(0) -> Num(0)
      [] OTHER -> None

\* shutterCount if it parses, else mechanicalShutterCount if it parses,
\* else imageNumber if it parses, else absent.
FrameCounter(md) ==
    IF IntegerOf(md.ShutterCount) # None THEN IntegerOf(md.ShutterCount)
    ELSE IF IntegerOf(md.MechanicalShutterCount) # None
         THEN IntegerOf(md.MechanicalShutterCount)
         ELSE IntegerOf(md.ImageNumber)

\* The entries the index holds for the record's path.
EntriesOf(md) ==
    {e \in Entries(Bucket(index.by_name, lower(PathName(md.SourceFile)))) :
        e.path = md.SourceFile}

\* Once the index is built, every record has an entry and the entry's
\* frame counter is the one derived from the record's three tags.
CountersDerived ==
    pc = "scan" =>
        \A k \in 1..Len(rawList) :
            /\ EntriesOf(rawList[k]) # {}
            /\ \A e \in EntriesOf(rawList[k]) :
                   e.ShutterCount = FrameCounter(rawList[k])

\* C19: the frame counter of every RAW entry is the integer of
\* shutterCount, else of mechanicalShutterCount, else of imageNumber, else
\* absent, a value that does not parse counting as absent; nothing is
\* raised and index building completes for every list of records.
C19_CounterDerivedNeverRaises ==
    /\ CountersDerived
    /\ pc # "aborted"
-----------------------------------------------------------------------------
(* Claims about the buckets an entry is put in (SpecIndex) *)

Name_a_nef == <<"a", ".", "n", "e", "f">>
Name_b_nef == <<"b", ".", "n", "e", "f">>

\* The lower-cased file name of each path of IndexPaths.
NameOf(path) == IF path = DirD_B_NEF THEN Name_b_nef ELSE Name_a_nef

\* The lower-cased name without extension of each path of IndexPaths.
StemOf(path) == IF path = DirD_B_NEF THEN <<"b">> ELSE <<"a">>

\* The bucket of map under key holds an entry of the record.
InBucket(map, key, md) ==
    \E e \in Entries(Bucket(map, key)) : e.path = md.SourceFile

\* The integers the counters of IndexCounters stand for.
CounterValues == {0, 3, 5, 7, 12}

\* The record's entry is in the buckets that apply to it and in no other.
PutWhereItApplies(md) ==
    /\ InBucket(index.by_name, NameOf(md.SourceFile), md)
    /\ InBucket(index.by_basename, StemOf(md.SourceFile), md)
    /\ \A key \in DOMAIN index.by_creation \cup {T1000.s} :
           InBucket(index.by_creation, key, md) <=> compose_creation(md) = Str(key)
    /\ \A n \in DOMAIN index.by_shutter \cup CounterValues :
           InBucket(index.by_shutter, n, md) <=> FrameCounter(md) = Num(n)
    /\ \A n \in DOMAIN index.by_image_number \cup CounterValues :
           InBucket(index.by_image_number, n, md) <=> IntegerOf(md.ImageNumber) = Num(n)

\* Every entry of a bucket has the bucket's key as its derived field.
BucketsKeyed ==
    /\ \A key \in DOMAIN index.by_creation :
           \A e \in Entries(index.by_creation[key]) : e.CreateKey = Str(key)
    /\ \A n \in DOMAIN index.by_shutter :
           \A e \in Entries(index.by_shutter[n]) : e.ShutterCount = Num(n)
    /\ \A n \in DOMAIN index.by_image_number :
           \A e \in Entries(index.by_image_number[n]) : e.ImageNumber = Num(n)
    /\ \A key \in DOMAIN index.by_name :
           \A e \in Entries(index.by_name[key]) : NameOf(e.path) = key
    /\ \A key \in DOMAIN index.by_basename :
           \A e \in Entries(index.by_basename[key]) : StemOf(e.path) = key

\* C20: after build_raw_indices the entry of every RAW record is in the
\* file-name bucket under its lower-cased name and in the stem bucket under
\* its lower-cased name without extension; it is in the creation-key bucket
\* under k iff k is its creation key, in the frame-counter bucket under n
\* iff n is its frame counter, in the image-number bucket under n iff n is
\* its imageNumber; and every entry of a bucket has the bucket's key as the
\* corresponding derived field.
C20_BucketMembership ==
    pc = "scan" =>
        /\ \A k \in 1..Len(rawList) : PutWhereItApplies(rawList[k])
        /\ BucketsKeyed

\* Two records of one file name, one with frame counter 0 and a creation
\* key, one with neither a counter nor a key.
C20_Witness ==
    /\ pc = "scan"
    /\ Len(Bucket(index.by_name, Name_a_nef)) = 2
    /\ Len(Bucket(index.by_shutter, 0)) = 1
    /\ Len(Bucket(index.by_creation, T1000.s)) = 1
    /\ \E k \in 1..Len(rawList) :
           /\ FrameCounter(rawList[k]) = None
           /\ compose_creation(rawList[k]) = None
-----------------------------------------------------------------------------
(* Claims about the lookup order of RefLookup.find (SpecFind) *)

JpegSuffixes == {<<".", "j", "p", "g">>, <<".", "j", "p", "e", "g">>}

\* The files of the three stages, in the lookup order: the file of that
\* name directly below the root, the files of that exact name further
\* down, the JPEG-extension files whose name differs in case only.
InLookupOrder(files, filename) ==
    SelectSeq(files, LAMBDA f : f.path = filename)
    \o SelectSeq(files, LAMBDA f : f.path # filename /\ PathName(f.path) = filename)
    \o SelectSeq(files, LAMBDA f :
           /\ PathName(f.path) # filename
           /\ lower(PathName(f.path)) = lower(filename)
           /\ lower(PathSuffix(f.path)) \in JpegSuffixes)

\* The record of the first file that yields one, <<>> when none does.
FirstWithData(candidates) ==
    IF SelectSeq(candidates, LAMBDA f : f.data # <<>>) = <<>> THEN <<>>
    ELSE SelectSeq(candidates, LAMBDA f : f.data # <<>>)[1].data

\* C21: a call of find that searches returns the record of the first
\* candidate, in the order direct file, exact name anywhere, same name in
\* another case among JPEG files, that yields a non-empty record, and
\* absent only when no candidate of any stage yields one.
C21_FirstReadableInLookupOrder ==
    \A key \in LogKeys :
        refLog[FirstFind(key)].ret =
            FirstWithData(InLookupOrder(refFiles, refLog[FirstFind(key)].path))
-----------------------------------------------------------------------------
(* One JPEG against up to three RAW records, filters off (SpecCascade) *)

MaxCascadeRaws == 3

\* Two RAWs of one creation key with counters 1 and 2, and two of another
\* key: one sharing the file name of the first and the counter of the
\* second, one with a counter of its own taken from ImageNumber.
CascadeRaws ==
    {Raw(DirD_a_nef, T1000, Num(1), None),
     Raw(DirD_b_nef, T1000, Num(2), None),
     Raw(DirE_a_nef, T1001, Num(2), None),
     [Raw(DirE_c_nef, T1001, None, None) EXCEPT !.ImageNumber = Num(5)]}

CascadeJpegs ==
    {Jpeg(DirJ_a_jpg, create_date, image_number, preserved, None) :
        create_date \in {None, T1000},
        image_number \in {None, Num(2), Num(5)},
        preserved \in {None, A_NEF}}

\* A reference record without a creation key that carries a frame counter
\* and a preserved name, and one with a key and a counter.
CascadeRefTrees ==
    {<<RefFile(Name_a_jpg, <<Jpeg(Name_a_jpg, None, Num(2), A_NEF, None)>>)>>,
     <<RefFile(Name_a_jpg, <<Jpeg(Name_a_jpg, T1001, Num(2), None, None)>>)>>}

InitCascade ==
    \E cfg \in Configs(BOOLEAN, {FALSE}, {FALSE}, {FALSE}),
       raws \in ListsUpTo(CascadeRaws, MaxCascadeRaws),
       jpeg \in CascadeJpegs,
       refs \in CascadeRefTrees \cup {<<>>} :
        /\ cfg.ref_root <=> refs # <<>>
        /\ \A j, k \in 1..Len(raws) : raws[j].SourceFile = raws[k].SourceFile => j = k
        /\ pc = "load"
        /\ Start(cfg, raws, <<jpeg>>, refs)

SpecCascade == InitCascade /\ [][Next]_vars

-----------------------------------------------------------------------------
(* Claims about two multi-candidate reference stages (SpecCascade) *)

\* What a fallback gives for its lookup: the entries sharing the key when
\* there are several entries, a key and an entry sharing it, else the lookup.
Yield(lookup, key) ==
    IF Len(lookup) > 1 /\ Truthy(key) /\ SharingKey(lookup, key) # {}
    THEN SelectSeq(lookup, LAMBDA e : e.CreateKey = key)
    ELSE lookup

\* S1: the frame-counter fallback with the reference record's counter.
RefCounterSet ==
    Yield(CounterLookup(to_int(result.ref_metadata[1].ImageNumber)), result.ref_key)

\* S2: the preserved-name fallback with the reference record's name.
RefNameSet ==
    Yield(NameLookup(result.ref_metadata[1].PreservedFileName), result.ref_key)

\* C22: when both fallbacks of the reference cross-check give several
\* candidates, S1 by the frame counter and S2 by the preserved name, the
\* candidates handed to the identity filters are exactly S2 and used_ref
\* stays false.
C22_LaterStageOverwrites ==
    (/\ pc = "matched"
     /\ result.ref_metadata # <<>>
     /\ Len(RefCounterSet) > 1
     /\ Len(RefNameSet) > 1) =>
        /\ result.unfiltered = RefNameSet
        /\ ~result.used_ref

\* S1 and S2 overlap without one holding the other, so S2 is neither their
\* union nor their intersection; the match is ambiguous.
C22_Witness ==
    /\ pc = "matched"
    /\ result.ref_metadata # <<>>
    /\ Len(RefCounterSet) = 2
    /\ Len(RefNameSet) = 2
    /\ Cardinality(Entries(RefCounterSet) \cap Entries(RefNameSet)) = 1
    /\ result.was_ambiguous
-----------------------------------------------------------------------------
(* Claims about the creation key of the RAW returned (SpecCascade) *)

\* The JPEG has a creation key and some indexed RAW record has it too.
KeyIndexed ==
    /\ Truthy(compose_creation(jpegList[pos]))
    /\ \E k \in 1..Len(rawList) :
           compose_creation(rawList[k]) = compose_creation(jpegList[pos])

\* The lookups the fallbacks make for this JPEG: by its own frame counter
\* and preserved name, and by those of the reference record when there is
\* one.
FallbackLookups ==
    {CounterLookup(to_int(jpegList[pos].ImageNumber)),
     NameLookup(jpegList[pos].PreservedFileName)}
    \cup (IF result.ref_metadata = <<>> THEN {}
          ELSE {CounterLookup(to_int(result.ref_metadata[1].ImageNumber)),
                NameLookup(result.ref_metadata[1].PreservedFileName)})

\* C24 as stated: with the filters off, a JPEG whose creation key K is the
\* key of some indexed RAW is never matched to a RAW of another key.
C24_ReturnedKeyIsJpegKey ==
    (pc = "matched" /\ FiltersOff /\ KeyIndexed /\ result.best_raw # <<>>) =>
        result.best_raw[1].CreateKey = compose_creation(jpegList[pos])

\* C24: with the filters off, a JPEG whose creation key K is the key of
\* some indexed RAW is matched to a RAW of key K, or, when several RAWs
\* have key K, to a RAW found by a fallback lookup that holds no entry of
\* key K (such a lookup is kept as it is).
C24_OtherKeyOnlyFromLookupWithoutKey ==
    (pc = "matched" /\ FiltersOff /\ KeyIndexed /\ result.best_raw # <<>>) =>
        \/ result.best_raw[1].CreateKey = compose_creation(jpegList[pos])
        \/ /\ Len(result.primary) > 1
           /\ \E lookup \in FallbackLookups :
                  /\ result.best_raw[1] \in Entries(lookup)
                  /\ SharingKey(lookup, compose_creation(jpegList[pos])) = {}

\* Two RAWs have the JPEG's key, the JPEG's frame counter is that of one of
\* them and of a RAW of another key, and the one of the JPEG's key is
\* returned.
C24_Witness ==
    /\ pc = "matched"
    /\ FiltersOff
    /\ KeyIndexed
    /\ Len(result.primary) = 2
    /\ Len(CounterLookup(to_int(jpegList[pos].ImageNumber))) = 2
    /\ Cardinality(SharingKey(CounterLookup(to_int(jpegList[pos].ImageNumber)),
                              compose_creation(jpegList[pos]))) = 1
    /\ result.best_raw # <<>>
    /\ result.best_raw[1].CreateKey = compose_creation(jpegList[pos])
-----------------------------------------------------------------------------
(* Claims about the counters of a run (Spec) *)

\* The JPEGs whose pass through the loop is over.
Processed == pos - 1

\* The JPEGs the loop has taken up, the one in hand included.
TakenUp == IF pc = "matched" THEN pos ELSE pos - 1

CountersConsistent ==
    /\ counters.matched + counters.ambiguous <= Processed
    /\ Processed <= Len(jpegList)
    /\ TakenUp <= Len(jpegList)
    /\ counters.copied <= counters.matched
    /\ counters.ref_fallback <= counters.matched
    /\ counters.missing_creation_key <= TakenUp
    /\ Len(grafts) = counters.matched
    /\ config.dry_run => counters.copied = counters.matched

\* A pass counts its JPEG once: as matched, as ambiguous, or as neither.
CountedOnce ==
    /\ counters'.matched >= counters.matched
    /\ counters'.ambiguous >= counters.ambiguous
    /\ (counters'.matched + counters'.ambiguous)
           - (counters.matched + counters.ambiguous) <= pos' - pos
    /\ pos' - pos \in {0, 1}

\* C23: throughout the loop of run and at its end, matched + ambiguous <=
\* processed <= total scanned, copied <= matched, resolved by reference <=
\* matched, without creation key <= processed, the number of calls of
\* copy_gps equals matched, in a dry run copied = matched, and each pass
\* counts its JPEG at most once as matched or ambiguous.
C23_CountersConsistent == []CountersConsistent /\ [][CountedOnce]_vars

\* A run over two JPEGs ends with one ambiguous and one matched whose graft
\* failed, one of them at least without a creation key.
C23_Witness ==
    /\ pc = "done"
    /\ Len(jpegList) = 2
    /\ counters.ambiguous = 1
    /\ counters.matched = 1
    /\ counters.copied = 0
    /\ counters.missing_creation_key >= 1
-----------------------------------------------------------------------------
(* merge_cameras *)

MergeNoTags ==
    [SourceFile |-> <<>>, CreateDate |-> None, DateTimeOriginal |-> None,
     DateTimeCreated |-> None, SubSecTimeOriginal |-> None, SubSecTime |-> None,
     SubSecDateTimeOriginal |-> None, error |-> None]

\* ExifClient._run_exiftool_json: the record of the file, or SourceFile and
\* an error when exiftool fails on it.
_run_exiftool_json(file) ==
    IF file.SourceFile \in unreadable
    THEN [MergeNoTags EXCEPT !.SourceFile = file.SourceFile,
                             !.error = Str(<<"e", "r", "r">>)]
    ELSE file

\* _read_sync: the records in the order of the files.
RECURSIVE _read_sync(_)
_read_sync(files) ==
    IF files = <<>> THEN <<>>
    ELSE <<_run_exiftool_json(Head(files))>> \o _read_sync(Tail(files))

\* The orders in which as_completed may hand over the records.
RECURSIVE Orders(_)
Orders(records) ==
    IF records = {} THEN {<<>>}
    ELSE UNION {{<<x>> \o rest : rest \in Orders(records \ {x})} : x \in records}

\* _read_parallel: the records in the order the workers finish.
_read_parallel(files) ==
    Orders({_run_exiftool_json(files[k]) : k \in 1..Len(files)})

\* ExifClient.read
read(no_parallel, files) ==
    IF no_parallel THEN {_read_sync(files)} ELSE _read_parallel(files)

\* str.replace(old, new) for a one-character old.
RECURSIVE replace(_, _, _)
replace(s, old, new) ==
    IF s = <<>> THEN <<>>
    ELSE (IF Head(s) = old THEN new ELSE <<Head(s)>>) \o replace(Tail(s), old, new)

\* str.zfill(width) of a text without a sign.
RECURSIVE zfill(_, _)
zfill(s, width) == IF Len(s) >= width THEN s ELSE zfill(<<"0">> \o s, width)

SafeChars ==
    {UpperCase[k] : k \in 1..Len(UpperCase)} \cup {LowerCase[k] : k \in 1..Len(LowerCase)}
    \cup {Digit(d) : d \in 0..9} \cup {".", "_", "-"}

\* re.sub(r'[^A-Za-z0-9._-]', '_', name)
RECURSIVE sanitize_filename(_)
sanitize_filename(name) ==
    IF name = <<>> THEN <<>>
    ELSE <<IF Head(name) \in SafeChars THEN Head(name) ELSE "_">>
         \o sanitize_filename(Tail(name))

\* dt of extract_datetime.
DateOf(meta) == Or(Or(meta.CreateDate, meta.DateTimeOriginal), meta.DateTimeCreated)

\* subsec of extract_datetime.
SubsecOf(meta) ==
    Or(Or(meta.SubSecTimeOriginal, meta.SubSecTime), meta.SubSecDateTimeOriginal)

\* dt.strip() on a date the tool printed as a number: AttributeError.
ExtractRaises(meta) == Truthy(DateOf(meta)) /\ DateOf(meta).t # "str"

\* dt.strip().replace(":", "").replace(" ", "_")
Normalized(dt) == replace(replace(strip(dt), ":", <<>>), " ", <<"_">>)

ExtractFrom(dt, subsec) ==
    IF ~Truthy(dt) THEN None
    ELSE IF Truthy(subsec)
         THEN Str(Normalized(dt.s) \o <<"_">> \o SubSeq(zfill(Text(subsec), 4), 1, 4))
         ELSE Str(Normalized(dt.s))

extract_datetime(meta) == ExtractFrom(DateOf(meta), SubsecOf(meta))

\* The characters of a datetime key, in the order of their code points.
KeyChars == <<"0", "1", "2", "3", "4", "5", "6", "7", "8", "9", "_">>

CharRank(c) == CHOOSE k \in 1..Len(KeyChars) : KeyChars[k] = c

\* a < b on str.
RECURSIVE LessText(_, _)
LessText(a, b) ==
    IF a = <<>> THEN b # <<>>
    ELSE IF b = <<>> THEN FALSE
    ELSE IF Head(a) = Head(b) THEN LessText(Tail(a), Tail(b))
    ELSE CharRank(Head(a)) < CharRank(Head(b))

MinKey(keys) == CHOOSE x \in keys : \A y \in keys \ {x} : LessText(x, y)

\* The keys of sorted(grouped.items()).
RECURSIVE SortedKeys(_)
SortedKeys(keys) ==
    IF keys = {} THEN <<>>
    ELSE <<MinKey(keys)>> \o SortedKeys(keys \ {MinKey(keys)})

MergeOnly ==
    UNCHANGED <<config, rawFiles, jpegFiles, refFiles, rawList, jpegList, index,
                refCache, refLog, pos, result, counters, grafts, metadata, creation,
                rawCache, unreadable>>

\* metadata_list = exif.read(all_files)
MergeRead ==
    /\ pc = "read"
    /\ \E records \in read(merge.no_parallel, merge.all_files) :
           merge' = [merge EXCEPT !.metadata_list = records, !.k = 1]
    /\ pc' = "group"
    /\ MergeOnly

\* One pass of the grouping loop: the record is skipped or appended to the
\* group of its datetime key.
GroupMeta ==
    /\ pc = "group"
    /\ merge.k <= Len(merge.metadata_list)
    /\ ~ExtractRaises(merge.metadata_list[merge.k])
    /\ merge' =
           IF ~Truthy(extract_datetime(merge.metadata_list[merge.k]))
           THEN [merge EXCEPT !.skipped = @ + 1, !.k = @ + 1]
           ELSE [merge EXCEPT
                    !.grouped = Put(@, extract_datetime(merge.metadata_list[merge.k]).s,
                                    merge.metadata_list[merge.k]),
                    !.k = @ + 1]
    /\ UNCHANGED pc
    /\ MergeOnly

\* extract_datetime raises; main does not catch it.
GroupRaises ==
    /\ pc = "group"
    /\ merge.k <= Len(merge.metadata_list)
    /\ ExtractRaises(merge.metadata_list[merge.k])
    /\ pc' = "aborted"
    /\ UNCHANGED merge
    /\ MergeOnly

\* sorted(grouped.items()), with collisions = 0 and counter = {}.
SortGroups ==
    /\ pc = "group"
    /\ merge.k > Len(merge.metadata_list)
    /\ merge' = [merge EXCEPT !.keys = SortedKeys(DOMAIN merge.grouped),
                              !.collisions = 0, !.counter = EmptyMap]
    /\ pc' = "groups"
    /\ MergeOnly

\* The head of a pass over the groups: base_name and the counter.
NextGroup ==
    /\ pc = "groups"
    /\ merge.keys # <<>>
    /\ merge' =
           IF Head(merge.keys) \in DOMAIN merge.counter
           THEN [merge EXCEPT
                    !.counter[Head(merge.keys)] = @ + 1,
                    !.base_name = Head(merge.keys) \o <<"-">>
                                  \o NatText(merge.counter[Head(merge.keys)] + 1),
                    !.collisions = @ + 1,
                    !.items = merge.grouped[Head(merge.keys)],
                    !.keys = Tail(@)]
           ELSE [merge EXCEPT
                    !.counter = [key \in DOMAIN @ \cup {Head(merge.keys)} |->
                                    IF key = Head(merge.keys) THEN 0 ELSE @[key]],
                    !.base_name = Head(merge.keys),
                    !.items = merge.grouped[Head(merge.keys)],
                    !.keys = Tail(@)]
    /\ pc' = "items"
    /\ MergeOnly

\* dst = output_dir / new_name
Destination(base_name, src) == sanitize_filename(base_name) \o lower(lower(PathSuffix(src)))

\* shutil.copy2(src, dst) or shutil.move(src, dst): dst now holds src.
Written(out, dst, src) ==
    [name \in DOMAIN out \cup {dst} |-> IF name = dst THEN src ELSE out[name]]

\* One pass over the items of a group: the file is copied or moved to its
\* new name, unless this is a dry run.
TransferItem ==
    /\ pc = "items"
    /\ merge.items # <<>>
    /\ merge' = [merge EXCEPT
                    !.transfers = Append(@,
                        [src |-> Head(merge.items).SourceFile,
                         dst |-> Destination(merge.base_name, Head(merge.items).SourceFile),
                         dt_key |-> extract_datetime(Head(merge.items)).s]),
                    !.out = IF merge.dry_run THEN @
                            ELSE Written(@, Destination(merge.base_name,
                                                        Head(merge.items).SourceFile),
                                         Head(merge.items).SourceFile),
                    !.items = Tail(@)]
    /\ pc' = IF Tail(merge.items) = <<>> THEN "groups" ELSE "items"
    /\ MergeOnly

\* The summary.
MergeSummary ==
    /\ pc = "groups"
    /\ merge.keys = <<>>
    /\ pc' = "merged"
    /\ UNCHANGED merge
    /\ MergeOnly

NextMerge ==
    \/ MergeRead
    \/ GroupMeta
    \/ GroupRaises
    \/ SortGroups
    \/ NextGroup
    \/ TransferItem
    \/ MergeSummary

MaxMergeFiles == 3

MergeFile(path, create_date, original, subsec) ==
    [MergeNoTags EXCEPT !.SourceFile = path, !.CreateDate = create_date,
                        !.DateTimeOriginal = original, !.SubSecTime = subsec]

DirA_x_jpg == <<"a", "/", "x", ".", "j", "p", "g">>
DirB_y_jpg == <<"b", "/", "y", ".", "j", "p", "g">>
DirB_z_nef == <<"b", "/", "z", ".", "n", "e", "f">>
DirA_w_JPG == <<"a", "/", "w", ".", "J", "P", "G">>
DirA_v_jpg == <<"a", "/", "v", ".", "j", "p", "g">>
DirA_u_jpg == <<"a", "/", "u", ".", "j", "p", "g">>

\* Two JPEGs of two cameras with one timestamp, a RAW of that moment with
\* sub-seconds, a JPEG of a later moment, one without a date and one whose
\* date is a number.
MergeFiles ==
    {MergeFile(DirA_x_jpg, T1000, None, None),
     MergeFile(DirB_y_jpg, T1000, None, None),
     MergeFile(DirB_z_nef, None, T1000, Num(5)),
     MergeFile(DirA_w_JPG, Str(<<"1", "0", ":", "0", "1", " ">>), None, None),
     MergeFile(DirA_v_jpg, None, None, None),
     MergeFile(DirA_u_jpg, Num(2020), None, None)}

InitMerge ==
    \E files \in ListsUpTo(MergeFiles, MaxMergeFiles),
       copy \in BOOLEAN, no_parallel \in BOOLEAN, dry_run \in BOOLEAN,
       failing \in {{}, {DirB_y_jpg}} :
        /\ \A j, k \in 1..Len(files) : files[j] = files[k] => j = k
        /\ pc = "read"
        /\ merge = [NoMerge EXCEPT !.copy = copy, !.no_parallel = no_parallel,
                                     !.dry_run = dry_run, !.all_files = files]
        /\ unreadable = failing
        /\ config = [ref_root |-> FALSE, require_serial |-> FALSE, require_lens |-> FALSE,
                     dry_run |-> FALSE, reindex |-> FALSE, raw_root |-> <<>>]
        /\ rawFiles = <<>>
        /\ jpegFiles = <<>>
        /\ refFiles = <<>>
        /\ rawList = <<>>
        /\ jpegList = <<>>
        /\ index = EmptyIndex
        /\ refCache = EmptyMap
        /\ refLog = <<>>
        /\ pos = 1
        /\ result = NoResult
        /\ counters = NoCounters
        /\ grafts = <<>>
        /\ metadata = NoTags
        /\ creation = None
        /\ rawCache = <<>>

SpecMerge == InitMerge /\ [][NextMerge]_vars
-----------------------------------------------------------------------------
(* Claims about the destinations of merge_cameras (SpecMerge) *)

SameExtension(a, b) == lower(PathSuffix(a.src)) = lower(PathSuffix(b.src))

\* C25: in one run of merge_cameras no two distinct source files are
\* assigned the same destination path, so no copied or moved file
\* overwrites another; two files with the same extension and the same
\* datetime key get distinct destination names and are counted in the
\* collisions that the summary reports as resolved.
C25_DistinctDestinations ==
    \A j, k \in 1..Len(merge.transfers) :
        j # k =>
            /\ merge.transfers[j].dst # merge.transfers[k].dst
            /\ (/\ SameExtension(merge.transfers[j], merge.transfers[k])
                /\ merge.transfers[j].dt_key = merge.transfers[k].dt_key)
               => merge.collisions >= 1

=============================================================================
